---- MODULE Spec2Model ----
(***************************************************************************)
(* A model of the web-music-player server (src/src/main.rs, utils.rs):     *)
(* the download orchestrator with its bounded retry, the metadata          *)
(* resolver, the post-acquisition finisher, the crop endpoint, the         *)
(* start-up artwork scan, and the pure helpers they use.                   *)
(*                                                                         *)
(* Strings are TLA+ strings (Len, \o and SubSeq work on them).  File       *)
(* contents are records: an audio file carries its tag, an image file      *)
(* carries its encoding, its dimensions and where its pixels come from.    *)
(***************************************************************************)
EXTENDS Integers, Sequences, FiniteSets, TLC

VARIABLES
    fs,     \* the file system: path -> file content, for the files that exist
    dl,     \* the download_file request in progress
    cr,     \* the crop_api request in progress
    scan,   \* the start-up scan: the directory entries whose task has not run
    art,    \* an Artist value and what Artist::get returned for it
    dur,    \* a duration string and what search_music_api made of it
    off,    \* image dimensions and what find_offset_to_center returned
    rq,     \* the list_file, group_by_artist, edit_api or delete_api request
            \* in progress, or the last one answered
    scanops, \* the decodings, encodings and file writes the start-up scan made
    ls,     \* a list_file request served while another request is in progress
    td,     \* the temp_download request in progress
    recently_played,  \* AppState.recently_played, most recent first
    playlist_session, \* AppState.prev_session
    calls   \* the calls of the handlers of the shared state: how many were
            \* made, the last one's answer, and the session last saved

vars == <<fs, dl, cr, scan, art, dur, off, rq, scanops,
          ls, td, recently_played, playlist_session, calls>>

-----------------------------------------------------------------------------
(* Option<T>, and the string helpers of the standard library the code uses *)

None == [some |-> FALSE, v |-> ""]
Some(x) == [some |-> TRUE, v |-> x]

\* Option::or
Or(a, b) == IF a.some THEN a ELSE b

\* Option::unwrap_or_else
UnwrapOrElse(a, d) == IF a.some THEN a.v ELSE d

CharAt(s, i) == SubSeq(s, i, i)

\* str::starts_with
StartsWith(s, p) == Len(s) >= Len(p) /\ SubSeq(s, 1, Len(p)) = p

\* str::rfind(c): the 1-based position of the last c in s, 0 when there is none
RECURSIVE RFindFrom(_, _, _)
RFindFrom(s, c, i) ==
    IF i = 0 THEN 0
    ELSE IF CharAt(s, i) = c THEN i
    ELSE RFindFrom(s, c, i - 1)

RFind(s, c) == RFindFrom(s, c, Len(s))

\* str::split(c), collected into a Vec
RECURSIVE SplitFrom(_, _, _, _)
SplitFrom(s, c, i, cur) ==
    IF i > Len(s) THEN <<cur>>
    ELSE IF CharAt(s, i) = c THEN <<cur>> \o SplitFrom(s, c, i + 1, "")
    ELSE SplitFrom(s, c, i + 1, cur \o CharAt(s, i))

Split(s, c) == SplitFrom(s, c, 1, "")

Digits == {"0", "1", "2", "3", "4", "5", "6", "7", "8", "9"}

DigitValue(c) ==
    CASE c = "0" -> 0 [] c = "1" -> 1 [] c = "2" -> 2 [] c = "3" -> 3
      [] c = "4" -> 4 [] c = "5" -> 5 [] c = "6" -> 6 [] c = "7" -> 7
      [] c = "8" -> 8 [] c = "9" -> 9

RECURSIVE DecimalValue(_, _)
DecimalValue(s, n) ==
    IF n = 0 THEN 0
    ELSE 10 * DecimalValue(s, n - 1) + DigitValue(CharAt(s, n))

\* str::parse::<u64>: one or more decimal digits after an optional '+'; the
\* strings of the model are far too short to exceed u64.
ParseU64(s) ==
    LET body == IF Len(s) >= 1 /\ CharAt(s, 1) = "+" THEN SubSeq(s, 2, Len(s)) ELSE s
    IN  IF Len(body) >= 1 /\ \A i \in 1..Len(body) : CharAt(body, i) \in Digits
        THEN Some(DecimalValue(body, Len(body)))
        ELSE [some |-> FALSE, v |-> 0]

\* utils::without_extension
without_extension(filename) ==
    LET i == RFind(filename, ".")
    IN  IF i = 0 THEN filename ELSE SubSeq(filename, 1, i - 1)

-----------------------------------------------------------------------------
(* Artist::get                                                             *)

ArtistNames == {"U", "C", ""}
ArtistField == {None} \cup {Some(n) : n \in ArtistNames}
Artists == [artist : ArtistField, channel : ArtistField, uploader : ArtistField]

ArtistGet_ChannelFirst(self) ==
    UnwrapOrElse(Or(Or(self.artist, self.channel), self.uploader), "Unknown")

ArtistGet(self) ==
    UnwrapOrElse(Or(Or(self.artist, self.uploader), self.channel), "Unknown")

NoResult == [done |-> FALSE]

\* A request carrying an Artist reaches Artist::get.
ArtistResolve ==
    /\ ~art.out.done
    /\ art' = [art EXCEPT !.out = [done |-> TRUE, v |-> ArtistGet(art.in)]]
    /\ UNCHANGED <<ls, td, recently_played, playlist_session, calls, rq, scanops, fs, dl, cr, scan, dur, off>>

-----------------------------------------------------------------------------
(* The duration string of a music search result (search_music_api)         *)

MaxDurLen == 5
DurAlphabet == {"3", "4", "5", ":", "x"}

RECURSIVE StringsOfLen(_, _)
StringsOfLen(alphabet, n) ==
    IF n = 0 THEN {""}
    ELSE {s \o c : s \in StringsOfLen(alphabet, n - 1), c \in alphabet}

DurationStrings == UNION {StringsOfLen(DurAlphabet, n) : n \in 0..MaxDurLen}

\* The outcome of the duration block: the Option it evaluates to, or the
\* panic of its unwrap_or_else closure.
DurSome(n) == [panic |-> FALSE, some |-> TRUE, v |-> n]
DurNone == [panic |-> FALSE, some |-> FALSE, v |-> 0]
DurPanic == [panic |-> TRUE, some |-> FALSE, v |-> 0]

ParseDuration(duration) ==
    LET parts == Split(duration, ":")
    IN  IF Len(parts) = 2
        THEN LET seconds == ParseU64(parts[2])
                 minutes == ParseU64(parts[1])
             IN  IF ~seconds.some THEN DurPanic
                 ELSE IF ~minutes.some THEN DurPanic
                 ELSE DurSome(seconds.v + minutes.v * 60)
        ELSE DurNone

\* search_music_api maps one search result to a Track.
SearchMusicDuration ==
    /\ ~dur.out.done
    /\ dur' = [dur EXCEPT !.out = [done |-> TRUE, v |-> ParseDuration(dur.in)]]
    /\ UNCHANGED <<ls, td, recently_played, playlist_session, calls, rq, scanops, fs, dl, cr, scan, art, off>>

-----------------------------------------------------------------------------
(* utils::find_offset_to_center                                            *)
(*                                                                         *)
(* A u32 is modelled by an integer: a value below 2^31 by itself, a value  *)
(* v at or above 2^31 by v - 2^32 (its two's-complement reading), so that   *)
(* a wrapped difference keeps its exact value.  U32Min is the unsigned      *)
(* minimum under this reading.                                             *)

MaxDim == 8
Dims == 0..MaxDim

U32Lt(a, b) ==
    IF a < 0 /\ b >= 0 THEN FALSE
    ELSE IF a >= 0 /\ b < 0 THEN TRUE
    ELSE a < b

U32Min(a, b) == IF U32Lt(a, b) THEN a ELSE b

OffsetOk(n) == [panic |-> FALSE, v |-> n]
OffsetPanic == [panic |-> TRUE, v |-> 0]

\* The subtraction of two u32: checked in a debug build (it panics on
\* underflow), wrapping in a release build.
U32Sub(a, b) ==
    IF a - b >= 0 THEN {OffsetOk(a - b)}
    ELSE {OffsetPanic, OffsetOk(a - b)}

find_offset_to_center_NoHalving(width, height) == U32Sub(width, height)

find_offset_to_center(width, height) == U32Sub(width \div 2, height \div 2)

FindOffset ==
    /\ ~off.out.done
    /\ \E r \in find_offset_to_center(off.width, off.height) :
          off' = [off EXCEPT !.out = [done |-> TRUE, v |-> r]]
    /\ UNCHANGED <<ls, td, recently_played, playlist_session, calls, rq, scanops, fs, dl, cr, scan, art, dur>>

-----------------------------------------------------------------------------
(* Files.  fs maps the path of every existing file to its content.         *)

MUSIC_DIR == "music"
IMG_DIR == "img"

Titles == {"A", "B"}

MusicPath(title) == MUSIC_DIR \o "/" \o title \o ".mp3"
ImagePath(title) == IMG_DIR \o "/" \o title \o ".jpeg"

Exists(path) == path \in DOMAIN fs

\* fs with content written at path (created or replaced)
WriteFile_KeepsExisting(f, path, content) ==
    [p \in DOMAIN f \cup {path} |-> IF p \in DOMAIN f THEN f[p] ELSE content]

WriteFile(f, path, content) ==
    [p \in DOMAIN f \cup {path} |-> IF p = path THEN content ELSE f[p]]

\* Image bytes: the encoding they really hold ("bad" when they decode as
\* nothing), the picture's size, the column of the source picture its left
\* edge comes from, and whether they are the bytes as received ("orig") or
\* the output of this program's JPEG encoder ("re").
ImageBytes(fmt, width, height, x, enc) ==
    [kind |-> "image", fmt |-> fmt, width |-> width, height |-> height,
     x |-> x, enc |-> enc]

BadBytes == ImageBytes("bad", 0, 0, 0, "orig")

\* A decoded RGB pixel buffer
Pixels(width, height, x) == [width |-> width, height |-> height, x |-> x]

\* Picture::new(data, mime), and a tag without a cover
Picture(data, mime) == [some |-> TRUE, mime |-> mime, data |-> data]
NoCover == [some |-> FALSE, mime |-> "", data |-> BadBytes]

\* An audio file: its tag container ("id3", "mp4", or "none" for a file
\* that holds no readable tag) and the tag's fields.
AudioFile(container, title, artist, cover) ==
    [kind |-> "audio", container |-> container, title |-> title,
     artist |-> artist, cover |-> cover]

ReadErr == [ok |-> FALSE]

\* audiotags::Tag::read_from_path with the reader of the given tag type
ReadFromPath(f, path, tagType) ==
    IF path \in DOMAIN f /\ f[path].kind = "audio" /\ f[path].container = tagType
    THEN [ok |-> TRUE, tag |-> f[path]]
    ELSE ReadErr

\* image::load_from_memory: the format is guessed from the bytes
LoadFromMemory(data) ==
    IF data.fmt = "bad" THEN [ok |-> FALSE]
    ELSE [ok |-> TRUE, img |-> Pixels(data.width, data.height, data.x)]

\* image::imageops::crop(img, x, y, width, height).to_image(): the rectangle
\* is clamped to the image (u32 arithmetic), so it may come out smaller.
Crop(img, x, y, width, height) ==
    LET cx == U32Min(x, img.width)
        cy == U32Min(y, img.height)
    IN  Pixels(U32Min(width, img.width - cx), U32Min(height, img.height - cy),
               img.x + cx)

\* write_to(.., ImageFormat::Jpeg) into a Vec: the JPEG encoder refuses an
\* image with a zero dimension (and one above 65535, beyond the sizes
\* here); writing into memory cannot fail otherwise.
EncodeJpeg(img) ==
    IF img.width = 0 \/ img.height = 0 THEN [ok |-> FALSE]
    ELSE [ok |-> TRUE,
          data |-> ImageBytes("jpeg", img.width, img.height, img.x, "re")]

-----------------------------------------------------------------------------
(* The external tool (yt-dlp) as download_file sees it                     *)

MAX_RETRIES == 3

MaxCover == 3

Marker == "Provided to YouTube by"

\* What a source reference may point at: a title, a description (null, one
\* that begins with the marker, one that only contains it) and a thumbnail
\* the tool embeds as the cover (none, undecodable bytes, or a JPEG).
Descriptions == {None, Some(Marker \o " Label"), Some("Demo. " \o Marker)}

Covers ==
    {NoCover, Picture(BadBytes, "jpeg")}
        \cup {Picture(ImageBytes("jpeg", w, h, 0, "orig"), "jpeg") :
                w \in 1..MaxCover, h \in 1..MaxCover}

Videos == [title : Titles, description : Descriptions, cover : Covers]

\* The uploader fields the tool reports for a title
ArtistOf(title) ==
    IF title = "A"
    THEN [artist |-> None, channel |-> Some("Ch"), uploader |-> Some("Up")]
    ELSE [artist |-> None, channel |-> None, uploader |-> None]

\* JSON values, and the text on the tool's standard output: a JSON object
\* (its keys and their values) or text that is no JSON document.
JStr(s) == [t |-> "str", s |-> s, n |-> 0]
JNum(n) == [t |-> "num", s |-> "", n |-> n]
JNull == [t |-> "null", s |-> "", n |-> 0]

JsonText(obj) == [json |-> TRUE, obj |-> obj]
NotJson(text) == [json |-> FALSE, text |-> text]

JOpt(o) == IF o.some THEN JStr(o.v) ELSE JNull

InfoJson(video) ==
    LET a == ArtistOf(video.title)
        base == [title |-> JStr(video.title),
                 description |-> JOpt(video.description),
                 thumbnail |-> JStr("https://i/" \o video.title),
                 duration |-> JNum(215)]
        named == {k \in {"artist", "channel", "uploader"} : a[k].some}
    IN  [k \in DOMAIN base \cup named |->
            IF k \in DOMAIN base THEN base[k] ELSE JStr(a[k].v)]

WithoutKey(obj, key) == [k \in DOMAIN obj \ {key} |-> obj[k]]

\* The standard outputs one run on a video can leave
Stdouts(video) ==
    {JsonText(InfoJson(video)),
     JsonText(WithoutKey(InfoJson(video), "title")),
     NotJson("")}

Diagnostics == {"ERROR: unavailable", "Failed to parse JSON"}
SpawnErrors == {"No such file or directory"}

\* std::process::Output of one attempt, or the io::Error of a failed launch
Launched(status, stdout, stderr) ==
    [launched |-> TRUE, status |-> status, stdout |-> stdout, stderr |-> stderr,
     err |-> ""]
LaunchFailed(e) ==
    [launched |-> FALSE, status |-> 0, stdout |-> NotJson(""), stderr |-> "",
     err |-> e]

Procs(video) ==
    {LaunchFailed(e) : e \in SpawnErrors}
        \cup {Launched(st, out, err) :
                st \in {0, 1}, out \in Stdouts(video), err \in {""} \cup Diagnostics}

\* What one run leaves at music/<title>.mp3: nothing, a file without a
\* readable tag, or the finished file with its metadata and cover embedded.
\* Only a run that wrote no diagnostics finishes the file.
ToolFiles(video, proc) ==
    IF ~proc.launched THEN {"none"}
    ELSE IF proc.stderr /= "" THEN {"none", "partial"}
    ELSE {"none", "partial", "full"}

ToolWrite(f, video, file) ==
    CASE file = "none" -> f
      [] file = "partial" ->
            WriteFile(f, MusicPath(video.title),
                      AudioFile("none", "", None, NoCover))
      [] file = "full" ->
            WriteFile(f, MusicPath(video.title),
                      AudioFile("id3", video.title,
                                Some(ArtistGet(ArtistOf(video.title))), video.cover))

-----------------------------------------------------------------------------
(* download_file                                                           *)

\* serde_json::from_slice::<DownloadResponse>
IsStr(obj, k) == k \in DOMAIN obj /\ obj[k].t = "str"
OptStrOk(obj, k) == k \notin DOMAIN obj \/ obj[k].t \in {"str", "null"}
OptStr(obj, k) == IF k \in DOMAIN obj /\ obj[k].t = "str" THEN Some(obj[k].s) ELSE None

ParseErr == [ok |-> FALSE]

ParseDownloadResponse(stdout) ==
    IF ~stdout.json THEN ParseErr
    ELSE LET o == stdout.obj
         IN  IF /\ IsStr(o, "title")
                /\ IsStr(o, "thumbnail")
                /\ "duration" \in DOMAIN o /\ o["duration"].t = "num"
                /\ \A k \in {"description", "artist", "channel", "uploader"} :
                      OptStrOk(o, k)
             THEN [ok |-> TRUE,
                   v |-> [title |-> o["title"].s,
                          description |-> OptStr(o, "description"),
                          artist |-> [artist |-> OptStr(o, "artist"),
                                      channel |-> OptStr(o, "channel"),
                                      uploader |-> OptStr(o, "uploader")],
                          thumbnail |-> o["thumbnail"].s,
                          duration |-> o["duration"].n]]
             ELSE ParseErr

\* How the loop body reads one attempt: its launch failed, it wrote
\* diagnostics, or it is the attempt whose stdout is taken.
AttemptKind_ExitStatus(proc) ==
    IF ~proc.launched THEN "spawn"
    ELSE IF proc.status /= 0 THEN "stderr"
    ELSE "ok"

AttemptKind_StderrIgnored(proc) ==
    IF ~proc.launched THEN "spawn" ELSE "ok"

AttemptKind(proc) ==
    IF ~proc.launched THEN "spawn"
    ELSE IF proc.stderr /= "" THEN "stderr"
    ELSE "ok"

\* The test that ends the retries
Exhausted_OneMore(i) == i = MAX_RETRIES + 1

Exhausted(i) == i = MAX_RETRIES

\* The response of the attempt that exhausts the retries
TerminalError_AlwaysBadRequest(proc) ==
    IF ~proc.launched
    THEN [status |-> 400,
          body |-> "Failed to spawn and capture output: " \o proc.err \o "\n" \o proc.err]
    ELSE [status |-> 400, body |-> proc.stderr]

TerminalError(proc) ==
    IF ~proc.launched
    THEN [status |-> 500,
          body |-> "Failed to spawn and capture output: " \o proc.err \o "\n" \o proc.err]
    ELSE [status |-> 400, body |-> proc.stderr]

ParseErrorResponse_BadRequest == [status |-> 400, body |-> "Failed to parse JSON"]

ParseErrorResponse == [status |-> 500, body |-> "Failed to parse JSON"]

NoProc == LaunchFailed("")
NoResponse == [status |-> 0, body |-> ""]
NoParsed == [title |-> "", description |-> None,
             artist |-> [artist |-> None, channel |-> None, uploader |-> None],
             thumbnail |-> "", duration |-> 0]
NoPixels == Pixels(0, 0, 0)
NoTag == AudioFile("none", "", None, NoCover)

\* dl: pc is where the handler stands ("idle" before a request, "done" once
\* it has answered, "panicked" when an unwrap aborted it without an answer);
\* i, stdout, parsed, image_path, tag, img, buffer are the handler's locals.
\* The rest records what happened: the video the reference points at, the
\* kinds of the attempts made, the last attempt, whether
\* find_offset_to_center was called and what it returned, and the file
\* operations the handler itself made.
DlIdle ==
    [pc |-> "idle", video |-> CHOOSE v \in Videos : TRUE,
     i |-> 0, hist |-> <<>>, proc |-> NoProc, stdout |-> NotJson(""),
     parsed |-> NoParsed, image_path |-> "", tag |-> NoTag, img |-> NoPixels,
     offset |-> OffsetOk(0), called |-> FALSE,
     buffer |-> BadBytes, ops |-> <<>>, response |-> NoResponse]

Respond(d, r) == [d EXCEPT !.pc = "done", !.response = r]
Panic(d) == [d EXCEPT !.pc = "panicked"]

FileOp(op, path, ok) == [op |-> op, path |-> path, ok |-> ok]

\* The body of the 200 answer
Summary(parsed, image_path) ==
    [title |-> parsed.title, artist |-> ArtistGet(parsed.artist),
     thumbnail |-> image_path, duration |-> parsed.duration]

Ok200(parsed, image_path) == [status |-> 200, body |-> Summary(parsed, image_path)]

\* A download request arrives (one per behaviour; what earlier requests
\* left behind is in the initial store).
download_file_start(body) ==
    /\ dl.pc = "idle"
    /\ dl' = [DlIdle EXCEPT !.pc = "loop", !.video = body]
    /\ UNCHANGED <<ls, td, recently_played, playlist_session, calls, rq, scanops, fs, cr, scan, art, dur, off>>

\* One turn of the retry loop: i += 1, the tool runs to its end, and the
\* attempt is retried, answered with a terminal error, or taken.
download_file_attempt ==
    /\ dl.pc = "loop"
    /\ \E proc \in Procs(dl.video) : \E file \in ToolFiles(dl.video, proc) :
          LET i == dl.i + 1
              kind == AttemptKind(proc)
              d == [dl EXCEPT !.i = i, !.proc = proc, !.hist = Append(@, kind)]
          IN  /\ fs' = ToolWrite(fs, dl.video, file)
              /\ dl' = IF kind = "ok"
                       THEN [d EXCEPT !.pc = "parse", !.stdout = proc.stdout]
                       ELSE IF Exhausted(i)
                       THEN Respond(d, TerminalError(proc))
                       ELSE d
    /\ UNCHANGED <<ls, td, recently_played, playlist_session, calls, rq, scanops, cr, scan, art, dur, off>>

\* Whether the finisher runs for a parsed description
FinisherRuns(description) ==
    description.some /\ StartsWith(description.v, Marker)

\* The taken stdout is parsed; a description that begins with the marker
\* sends the request to the finisher, any other ends it with the summary.
download_file_parse ==
    /\ dl.pc = "parse"
    /\ LET r == ParseDownloadResponse(dl.stdout)
       IN  dl' = IF ~r.ok THEN Respond(dl, ParseErrorResponse)
                 ELSE IF FinisherRuns(r.v.description)
                 THEN [dl EXCEPT !.pc = "open", !.parsed = r.v,
                                 !.image_path = ImagePath(r.v.title)]
                 ELSE Respond([dl EXCEPT !.parsed = r.v, !.image_path = r.v.thumbnail],
                              Ok200(r.v, r.v.thumbnail))
    /\ UNCHANGED <<ls, td, recently_played, playlist_session, calls, rq, scanops, fs, cr, scan, art, dur, off>>

\* Whether the finisher goes on to crop a cover of this size
FinisherCrops_WideOnly(width, height) == width > height

FinisherCrops(width, height) == width /= height

\* The finisher opens the track, takes its cover and decodes it.
download_file_open ==
    /\ dl.pc = "open"
    /\ LET music_path == MusicPath(dl.parsed.title)
           t == ReadFromPath(fs, music_path, "id3")
           d == [dl EXCEPT !.ops = Append(@, FileOp("read", music_path, t.ok))]
       IN  dl' = IF ~t.ok
                 THEN Respond(d, [status |-> 500, body |-> "Open music file error"])
                 ELSE IF ~t.tag.cover.some THEN Panic(d)
                 ELSE LET img == LoadFromMemory(t.tag.cover.data)
                      IN  IF ~img.ok THEN Panic(d)
                          ELSE IF FinisherCrops(img.img.width, img.img.height)
                          THEN [d EXCEPT !.pc = "crop", !.tag = t.tag, !.img = img.img]
                          ELSE Respond([d EXCEPT !.tag = t.tag, !.img = img.img],
                                       Ok200(dl.parsed, dl.image_path))
    /\ UNCHANGED <<ls, td, recently_played, playlist_session, calls, rq, scanops, fs, cr, scan, art, dur, off>>

\* The cover is cropped and encoded, and the cache artefact written; the
\* result of that write is discarded.
download_file_crop ==
    /\ dl.pc = "crop"
    /\ \E offset \in find_offset_to_center(dl.img.width, dl.img.height) :
       \E written \in BOOLEAN :
          IF offset.panic
          THEN /\ dl' = Panic([dl EXCEPT !.called = TRUE, !.offset = offset])
               /\ fs' = fs
          ELSE LET d == [dl EXCEPT !.called = TRUE, !.offset = offset]
                   cropped == Crop(dl.img, offset.v, 0, dl.img.height, dl.img.height)
                   e == EncodeJpeg(cropped)
               IN  IF ~e.ok
                   THEN /\ dl' = Respond(d, [status |-> 500, body |-> "Crop image error"])
                        /\ fs' = fs
                   ELSE /\ dl' = [d EXCEPT !.pc = "write", !.buffer = e.data,
                                     !.ops = Append(@, FileOp("write", dl.image_path, written))]
                        /\ fs' = IF written THEN WriteFile(fs, dl.image_path, e.data) ELSE fs
    /\ UNCHANGED <<ls, td, recently_played, playlist_session, calls, rq, scanops, cr, scan, art, dur, off>>

\* The cropped cover is set in the tag and the tag written back.
download_file_write ==
    /\ dl.pc = "write"
    /\ LET music_path == MusicPath(dl.parsed.title)
           tag == [dl.tag EXCEPT !.cover = Picture(dl.buffer, "jpeg")]
       IN  \E written \in {FALSE} \cup {Exists(music_path)} :
              LET d == [dl EXCEPT !.tag = tag,
                           !.ops = Append(@, FileOp("write", music_path, written))]
              IN  IF written
                  THEN /\ fs' = WriteFile(fs, music_path, tag)
                       /\ dl' = Respond(d, Ok200(dl.parsed, dl.image_path))
                  ELSE /\ fs' = fs
                       /\ dl' = Panic(d)
    /\ UNCHANGED <<ls, td, recently_played, playlist_session, calls, rq, scanops, cr, scan, art, dur, off>>

DownloadNext ==
    \/ \E body \in Videos : download_file_start(body)
    \/ download_file_attempt
    \/ download_file_parse
    \/ download_file_open
    \/ download_file_crop
    \/ download_file_write

-----------------------------------------------------------------------------
(* The start-up scan of the track store (main)                             *)

\* The (title, ext) a listing makes of a file name
TitleOf(filename) ==
    LET d == RFind(filename, ".")
    IN  IF d = 0 THEN filename ELSE SubSeq(filename, 1, d - 1)

ExtOf(filename) ==
    LET d == RFind(filename, ".")
    IN  IF d = 0 THEN "mp3" ELSE SubSeq(filename, d + 1, Len(filename))

\* The reader chosen for an extension ("" when the format is unrecognised)
ReaderFor_DefaultsToId3(ext) ==
    CASE ext \in {"mp4", "m4a"} -> "mp4"
      [] OTHER -> "id3"

ReaderFor(ext) ==
    CASE ext = "mp3" -> "id3"
      [] ext \in {"mp4", "m4a"} -> "mp4"
      [] OTHER -> ""

\* image::load_from_memory_with_format
LoadFromMemoryWithFormat(data, fmt) ==
    IF data.fmt /= fmt THEN [ok |-> FALSE]
    ELSE [ok |-> TRUE, img |-> Pixels(data.width, data.height, data.x)]

\* What one outcome of a population leaves: the store, the operations made
\* (decodings, encodings, writes), and whether an unwrap ended it.
Outcome(f, ops, panic) == [fs |-> f, ops |-> ops, panic |-> panic]

\* The task main spawns for one directory entry: every outcome it can have.
\* A failed unwrap ends the task where it stands: what was written before
\* stays written.
ScanTask(f, filename) ==
    LET title == TitleOf(filename)
        reader == ReaderFor(ExtOf(filename))
        music_path == MUSIC_DIR \o "/" \o filename
        path == "img/" \o title \o ".jpeg"
        t == ReadFromPath(f, music_path, reader)
    IN  IF reader = "" \/ ~t.ok \/ ~t.tag.cover.some
        THEN {Outcome(f, <<>>, FALSE)}
        ELSE LET c == t.tag.cover
             IN  IF c.mime = "jpeg"
                 THEN {Outcome(IF written THEN WriteFile(f, path, c.data) ELSE f,
                               <<FileOp("write", path, written)>>, ~written) :
                          written \in BOOLEAN}
                 ELSE LET img == LoadFromMemoryWithFormat(c.data, c.mime)
                          dec == <<FileOp("decode", music_path, img.ok)>>
                      IN  IF ~img.ok THEN {Outcome(f, dec, TRUE)}
                          ELSE LET e == EncodeJpeg(img.img)
                                   enc == Append(dec, FileOp("encode", music_path, e.ok))
                               IN  IF ~e.ok THEN {Outcome(f, enc, TRUE)}
                                   ELSE LET tag == [t.tag EXCEPT
                                                      !.cover = Picture(e.data, "jpeg")]
                                            f1 == WriteFile(f, music_path, tag)
                                        IN  {Outcome(f, Append(enc,
                                                FileOp("write", music_path, FALSE)), TRUE)}
                                            \cup
                                            {Outcome(IF written
                                                     THEN WriteFile(f1, path, e.data)
                                                     ELSE f1,
                                                     enc \o <<FileOp("write", music_path, TRUE),
                                                              FileOp("write", path, written)>>,
                                                     ~written) :
                                                written \in BOOLEAN}

startup_scan(filename) ==
    /\ filename \in scan
    /\ scan' = scan \ {filename}
    /\ \E o \in ScanTask(fs, filename) :
          /\ fs' = o.fs
          /\ scanops' = scanops \o o.ops
    /\ UNCHANGED <<ls, td, recently_played, playlist_session, calls, rq, dl, cr, art, dur, off>>

-----------------------------------------------------------------------------
(* crop_api                                                                *)

\* The image format image::open takes from a path's extension
FormatOfPath(path) ==
    LET d == RFind(path, ".")
        ext == IF d = 0 THEN "" ELSE SubSeq(path, d + 1, Len(path))
    IN  CASE ext \in {"jpeg", "jpg"} -> "jpeg"
          [] ext = "png" -> "png"
          [] OTHER -> ""

\* image::open(path)
ImageOpen(f, path) ==
    IF /\ path \in DOMAIN f
       /\ f[path].kind = "image"
       /\ FormatOfPath(path) /= ""
       /\ f[path].fmt = FormatOfPath(path)
    THEN [ok |-> TRUE, img |-> Pixels(f[path].width, f[path].height, f[path].x)]
    ELSE [ok |-> FALSE]

\* body.image without its query string and its leading '/' (strip_prefix
\* gives None when there is no leading '/', and the unwrap panics)
CropImagePath(image) ==
    LET q == RFind(image, "?")
        p == IF q = 0 THEN image ELSE SubSeq(image, 1, q - 1)
    IN  IF Len(p) >= 1 /\ CharAt(p, 1) = "/" THEN Some(SubSeq(p, 2, Len(p))) ELSE None

CropFilenames == {"A.mp3", "B.mp3"}
CropImages == {"/img/A.jpeg", "/img/A.jpeg?t=1", "img/A.jpeg", "/img/B.jpeg"}
CropRequests == [filename : CropFilenames, image : CropImages]

\* Whether crop_api goes on to crop an image of this size
CropApiCrops(width, height) == width /= height

CrIdle ==
    [pc |-> "idle", body |-> CHOOSE b \in CropRequests : TRUE, image_path |-> "",
     img |-> NoPixels, offset |-> OffsetOk(0), called |-> FALSE,
     buffer |-> BadBytes, ops |-> <<>>, response |-> NoResponse]

\* A crop request: the image is opened, measured, cropped and encoded, and
\* the artefact written next to it; the result of that write is discarded.
crop_api_open(body) ==
    /\ cr.pc \in {"idle", "done", "panicked"}
    /\ LET ip == CropImagePath(body.image)
           c0 == [CrIdle EXCEPT !.body = body]
       IN  IF ~ip.some
           THEN /\ cr' = Panic(c0)
                /\ fs' = fs
           ELSE LET image_path == ip.v
                    o == ImageOpen(fs, image_path)
                    c1 == [c0 EXCEPT !.image_path = image_path,
                              !.ops = Append(@, FileOp("read", image_path, o.ok))]
                IN  IF ~o.ok
                    THEN /\ cr' = Respond(c1, [status |-> 500, body |-> "Open image error"])
                         /\ fs' = fs
                    ELSE IF ~CropApiCrops(o.img.width, o.img.height)
                    THEN /\ cr' = Respond([c1 EXCEPT !.img = o.img],
                                          [status |-> 400, body |-> "Already square"])
                         /\ fs' = fs
                    ELSE \E offset \in find_offset_to_center(o.img.width, o.img.height) :
                         \E written \in BOOLEAN :
                            LET c2 == [c1 EXCEPT !.img = o.img, !.offset = offset,
                                                 !.called = TRUE]
                                cropped == Crop(o.img, offset.v, 0, o.img.height, o.img.height)
                                e == EncodeJpeg(cropped)
                                out == without_extension(image_path) \o ".jpeg"
                            IN  IF offset.panic
                                THEN /\ cr' = Panic(c2)
                                     /\ fs' = fs
                                ELSE IF ~e.ok
                                THEN /\ cr' = Respond(c2, [status |-> 500,
                                                           body |-> "Crop image error"])
                                     /\ fs' = fs
                                ELSE /\ cr' = [c2 EXCEPT !.pc = "tag", !.buffer = e.data,
                                                  !.ops = Append(@, FileOp("write", out, written))]
                                     /\ fs' = IF written THEN WriteFile(fs, out, e.data) ELSE fs
    /\ UNCHANGED <<ls, td, recently_played, playlist_session, calls, rq, scanops, dl, scan, art, dur, off>>

\* The track's tag is read, given the cropped cover, and written back.
crop_api_tag ==
    /\ cr.pc = "tag"
    /\ LET music_path == MUSIC_DIR \o "/" \o cr.body.filename
           t == ReadFromPath(fs, music_path, "id3")
           c1 == [cr EXCEPT !.ops = Append(@, FileOp("read", music_path, t.ok))]
       IN  IF ~t.ok
           THEN /\ cr' = Panic(c1)
                /\ fs' = fs
           ELSE \E written \in BOOLEAN :
                   LET tag == [t.tag EXCEPT !.cover = Picture(cr.buffer, "jpeg")]
                       c2 == [c1 EXCEPT !.ops = Append(@, FileOp("write", music_path, written))]
                   IN  IF written
                       THEN /\ fs' = WriteFile(fs, music_path, tag)
                            /\ cr' = Respond(c2, [status |-> 200, body |-> "OK"])
                       ELSE /\ fs' = fs
                            /\ cr' = Panic(c2)
    /\ UNCHANGED <<ls, td, recently_played, playlist_session, calls, rq, scanops, dl, scan, art, dur, off>>

CropNext ==
    \/ \E body \in CropRequests : crop_api_open(body)
    \/ crop_api_tag

-----------------------------------------------------------------------------
(* The library handlers: list_file, group_by_artist, edit_api, delete_api  *)

\* audiotags::MimeType, its TryFrom<&str> and its conversion to a String
MimeTypes == {"jpeg", "png", "tiff", "bmp", "gif"}

\* str::strip_prefix
StripPrefix(s, p) ==
    IF StartsWith(s, p) THEN Some(SubSeq(s, Len(p) + 1, Len(s))) ELSE None

MimeTryFrom(content_type) ==
    LET sub == StripPrefix(content_type, "image/")
    IN  IF sub.some /\ sub.v \in MimeTypes THEN sub ELSE None

MimeString(mime) == "image/" \o mime

\* A file of the track store that is no audio file
OtherFile == [kind |-> "other"]

\* std::fs::read_dir(dir): the names of the files in dir
ReadDir(f, dir) ==
    {SubSeq(p, Len(dir) + 2, Len(p)) : p \in {q \in DOMAIN f : StartsWith(q, dir \o "/")}}

\* std::fs::remove_file and std::fs::rename on the store
RemoveFile(f, path) == [p \in DOMAIN f \ {path} |-> f[p]]

Rename(f, from, to) ==
    [p \in (DOMAIN f \ {from}) \cup {to} |-> IF p = to THEN f[from] ELSE f[p]]

\* A read of a tag, with the reader that made it
TagRead(reader, path, ok) == [op |-> "read", path |-> path, ok |-> ok, reader |-> reader]

\* The Track a listing returns
Track(filename, title, artist, thumbnail) ==
    [filename |-> filename, title |-> title, artist |-> artist, thumbnail |-> thumbnail]

\* A multipart field: a text field, or a file field with its content type
EmptyBytes == ImageBytes("empty", 0, 0, 0, "orig")
TextField(name, text) ==
    [name |-> name, text |-> text, content_type |-> None, data |-> EmptyBytes]
FileField(name, content_type, data) ==
    [name |-> name, text |-> "", content_type |-> content_type, data |-> data]

\* rq: handler is the handler serving the request and pc where it stands
\* ("idle" before any request, "done" once answered, "panicked" when an
\* unwrap aborted it without an answer).  todo and files are the listing's
\* remaining directory entries and its Vec of tracks, map what
\* group_by_artist returns; fields, filename, title, path, tag and
\* matched_title are edit_api's remaining fields and locals; body is
\* delete_api's body.  The rest records what happened: how many requests
\* arrived so far, the multipart request as sent, the store when the request
\* arrived, and the operations made.
RqIdle ==
    [n |-> 0, handler |-> "", pc |-> "idle", todo |-> {}, files |-> <<>>, map |-> {},
     fields |-> <<>>, filename |-> "", title |-> "", path |-> "",
     tag |-> [some |-> FALSE, v |-> NoTag], matched_title |-> TRUE,
     body |-> "", req |-> <<>>, store |-> <<>>, ops |-> <<>>,
     response |-> NoResponse]

RqTerminal == {"idle", "done", "panicked"}

\* The requests of one behaviour
MaxRequests == 2

\* Whether a declared cover format is passed through as it is
IsPassthrough_Never(mime) == FALSE

IsPassthrough(mime) == mime = "jpeg"

\* The cover set in the tag after a conversion
NormalizedCover_DeclaredAsBefore(c, buffer) == Picture(buffer, c.mime)

NormalizedCover(c, buffer) == Picture(buffer, "jpeg")

\* The artwork-cache population of list_file and group_by_artist for a track
\* whose tag was read: every outcome it can have.
Populate(f, music_path, image_path, tag) ==
    IF image_path \in DOMAIN f THEN {Outcome(f, <<>>, FALSE)}
    ELSE IF ~tag.cover.some THEN {Outcome(f, <<>>, FALSE)}
    ELSE LET c == tag.cover
         IN  IF IsPassthrough(c.mime)
             THEN {Outcome(IF written THEN WriteFile(f, image_path, c.data) ELSE f,
                           <<FileOp("write", image_path, written)>>, FALSE) :
                      written \in BOOLEAN}
             ELSE LET img == LoadFromMemoryWithFormat(c.data, c.mime)
                      dec == <<FileOp("decode", music_path, img.ok)>>
                  IN  IF ~img.ok THEN {Outcome(f, dec, TRUE)}
                      ELSE LET e == EncodeJpeg(img.img)
                               enc == Append(dec, FileOp("encode", music_path, e.ok))
                           IN  IF ~e.ok THEN {Outcome(f, enc, TRUE)}
                               ELSE LET t2 == [tag EXCEPT
                                                 !.cover = NormalizedCover(c, e.data)]
                                        f1 == WriteFile(f, music_path, t2)
                                    IN  {Outcome(f, Append(enc,
                                            FileOp("write", music_path, FALSE)), TRUE)}
                                        \cup
                                        {Outcome(IF written
                                                 THEN WriteFile(f1, image_path, e.data)
                                                 ELSE f1,
                                                 enc \o <<FileOp("write", music_path, TRUE),
                                                          FileOp("write", image_path, written)>>,
                                                 ~written) :
                                            written \in BOOLEAN}

\* A listing request arrives: read_dir gives the entries of the track store.
listing_start(handler) ==
    /\ rq.pc \in RqTerminal
    /\ rq.n < MaxRequests
    /\ rq' = [RqIdle EXCEPT !.n = rq.n + 1, !.handler = handler, !.pc = "loop",
                            !.todo = ReadDir(fs, MUSIC_DIR), !.store = fs]
    /\ UNCHANGED <<ls, td, recently_played, playlist_session, calls, fs, dl, cr, scan, art, dur, off, scanops>>

list_file == listing_start("list_file")

group_by_artist == listing_start("group_by_artist")

\* One turn of the loop over the entries, in the order read_dir gives them.
listing_entry(filename) ==
    /\ rq.pc = "loop"
    /\ filename \in rq.todo
    /\ LET title == TitleOf(filename)
           reader == ReaderFor(ExtOf(filename))
           image == "/img/" \o title \o ".jpeg"
           music_path == MUSIC_DIR \o "/" \o filename
           r0 == [rq EXCEPT !.todo = @ \ {filename}]
       IN  IF reader = ""
           THEN /\ rq' = r0
                /\ fs' = fs
           ELSE LET t == ReadFromPath(fs, music_path, reader)
                    r1 == [r0 EXCEPT !.ops = Append(@, TagRead(reader, music_path, t.ok))]
                IN  IF ~t.ok
                    THEN /\ fs' = fs
                         /\ rq' = IF rq.handler = "list_file"
                                  THEN [r1 EXCEPT !.files =
                                          Append(@, Track(filename, title, "Unknown", image))]
                                  ELSE r1
                    ELSE \E o \in Populate(fs, music_path, SubSeq(image, 2, Len(image)), t.tag) :
                            LET r2 == [r1 EXCEPT !.ops = @ \o o.ops]
                                artist == UnwrapOrElse(t.tag.artist, "Unknown")
                            IN  /\ fs' = o.fs
                                /\ rq' = IF o.panic THEN Panic(r2)
                                         ELSE [r2 EXCEPT !.files =
                                                 Append(@, Track(filename, title, artist, image))]
    /\ UNCHANGED <<ls, td, recently_played, playlist_session, calls, dl, cr, scan, art, dur, off, scanops>>

\* artist.split(", ").next().unwrap()
RECURSIVE FirstArtistFrom(_, _)
FirstArtistFrom(artist, i) ==
    IF i + 1 > Len(artist) THEN artist
    ELSE IF SubSeq(artist, i, i + 1) = ", " THEN SubSeq(artist, 1, i - 1)
    ELSE FirstArtistFrom(artist, i + 1)

FirstArtist(artist) == FirstArtistFrom(artist, 1)

\* The map group_by_artist builds, after map.retain(|_, v| v.len() > 1)
GroupMap(files) ==
    LET keys == {FirstArtist(files[i].artist) : i \in 1..Len(files)}
        Of(k) == SelectSeq(files, LAMBDA t : FirstArtist(t.artist) = k)
    IN  {[artist |-> k, tracks |-> Of(k)] : k \in {j \in keys : Len(Of(j)) > 1}}

\* The loop is over: the listing is answered.
listing_finish ==
    /\ rq.pc = "loop"
    /\ rq.todo = {}
    /\ rq' = Respond(IF rq.handler = "group_by_artist"
                     THEN [rq EXCEPT !.map = GroupMap(rq.files)]
                     ELSE rq,
                     [status |-> 200, body |-> rq.handler])
    /\ UNCHANGED <<ls, td, recently_played, playlist_session, calls, fs, dl, cr, scan, art, dur, off, scanops>>

\* The test of edit_api's title field against the current file name
MatchedTitle_WholeFilename(title, filename) == title = filename

MatchedTitle(title, filename) == title = without_extension(filename)

\* An edit request arrives with its multipart fields.
edit_api(multipart) ==
    /\ rq.pc \in RqTerminal
    /\ rq.n < MaxRequests
    /\ rq' = [RqIdle EXCEPT !.n = rq.n + 1, !.handler = "edit_api", !.pc = "fields",
                            !.fields = multipart, !.req = multipart, !.store = fs]
    /\ UNCHANGED <<ls, td, recently_played, playlist_session, calls, fs, dl, cr, scan, art, dur, off, scanops>>

\* One turn of the loop over the fields.
edit_api_field ==
    /\ rq.pc = "fields"
    /\ rq.fields /= <<>>
    /\ LET field == Head(rq.fields)
           r0 == [rq EXCEPT !.fields = Tail(@)]
       IN  CASE field.name = "filename" ->
                  LET path == MUSIC_DIR \o "/" \o field.text
                      t == ReadFromPath(fs, path, "id3")
                      r1 == [r0 EXCEPT !.filename = field.text, !.path = path,
                                       !.ops = Append(@, TagRead("id3", path, t.ok))]
                  IN  /\ fs' = fs
                      /\ rq' = IF t.ok THEN [r1 EXCEPT !.tag = Some(t.tag)]
                               ELSE Respond(r1, [status |-> 400, body |-> "Failed to read tag"])
              [] field.name = "title" ->
                  LET r1 == [r0 EXCEPT !.title = field.text]
                  IN  /\ fs' = fs
                      /\ rq' = IF MatchedTitle(field.text, rq.filename) THEN r1
                               ELSE IF ~rq.tag.some
                               THEN Panic([r1 EXCEPT !.matched_title = FALSE])
                               ELSE [r1 EXCEPT !.matched_title = FALSE,
                                               !.tag.v.title = field.text]
              [] field.name = "artist" ->
                  /\ fs' = fs
                  /\ rq' = IF ~rq.tag.some THEN Panic(r0)
                           ELSE [r0 EXCEPT !.tag.v.artist = Some(field.text)]
              [] field.name = "thumbnail" ->
                  IF field.data = EmptyBytes \/ ~field.content_type.some
                  THEN /\ fs' = fs
                       /\ rq' = r0
                  ELSE LET content_type == field.content_type.v
                           mime == MimeTryFrom(content_type)
                       IN  IF ~StartsWith(content_type, "image/") \/ ~mime.some
                           THEN /\ fs' = fs
                                /\ rq' = Respond(r0, [status |-> 400,
                                                      body |-> "Invalid content type"])
                           ELSE IF ~rq.tag.some
                           THEN /\ fs' = fs
                                /\ rq' = Panic(r0)
                           ELSE \E written \in BOOLEAN :
                                   LET out == IMG_DIR \o "/" \o rq.title \o "."
                                                \o StripPrefix(content_type, "image/").v
                                       r1 == [r0 EXCEPT
                                                !.tag.v.cover = Picture(field.data, mime.v),
                                                !.ops = Append(@, FileOp("write", out, written))]
                                   IN  IF written
                                       THEN /\ fs' = WriteFile(fs, out, field.data)
                                            /\ rq' = r1
                                       ELSE /\ fs' = fs
                                            /\ rq' = Panic(r1)
              [] OTHER ->
                  /\ fs' = fs
                  /\ rq' = r0
    /\ UNCHANGED <<ls, td, recently_played, playlist_session, calls, dl, cr, scan, art, dur, off, scanops>>

\* The fields are over: the tag is persisted to the path it was read from.
edit_api_write ==
    /\ rq.pc = "fields"
    /\ rq.fields = <<>>
    /\ IF ~rq.tag.some
       THEN /\ fs' = fs
            /\ rq' = Panic(rq)
       ELSE \E written \in {FALSE} \cup {Exists(rq.path)} :
               LET r1 == [rq EXCEPT !.ops = Append(@, FileOp("write", rq.path, written))]
               IN  IF ~written
                   THEN /\ fs' = fs
                        /\ rq' = Panic(r1)
                   ELSE /\ fs' = WriteFile(fs, rq.path, rq.tag.v)
                        /\ rq' = IF rq.matched_title
                                 THEN Respond(r1, [status |-> 200, body |-> "OK"])
                                 ELSE [r1 EXCEPT !.pc = "rename"]
    /\ UNCHANGED <<ls, td, recently_played, playlist_session, calls, dl, cr, scan, art, dur, off, scanops>>

\* The path a title-changing edit renames the file to
NewFilename(title, filename) ==
    MUSIC_DIR \o "/" \o title \o SubSeq(filename, RFind(filename, "."), Len(filename))

\* The title changed: the file is renamed after its new title.
edit_api_rename ==
    /\ rq.pc = "rename"
    /\ IF RFind(rq.filename, ".") = 0
       THEN /\ fs' = fs
            /\ rq' = Panic(rq)
       ELSE LET new_filename == NewFilename(rq.title, rq.filename)
            IN  \E renamed \in {FALSE} \cup {Exists(rq.path)} :
                   LET r1 == [rq EXCEPT !.ops = Append(@,
                                 [op |-> "rename", path |-> rq.path, ok |-> renamed,
                                  to |-> new_filename])]
                   IN  IF renamed
                       THEN /\ fs' = Rename(fs, rq.path, new_filename)
                            /\ rq' = Respond(r1, [status |-> 200, body |-> "OK"])
                       ELSE /\ fs' = fs
                            /\ rq' = Panic(r1)
    /\ UNCHANGED <<ls, td, recently_played, playlist_session, calls, dl, cr, scan, art, dur, off, scanops>>

\* The cached artwork delete_api removes for a cover
DeletedArtwork(body, cover) ==
    IMG_DIR \o "/" \o without_extension(body) \o "."
        \o StripPrefix(MimeString(cover.mime), "image/").v

\* A delete request: the cached artwork named after the cover's format,
\* then the track.
delete_api(body) ==
    /\ rq.pc \in RqTerminal
    /\ rq.n < MaxRequests
    /\ LET path == MUSIC_DIR \o "/" \o body
           t == ReadFromPath(fs, path, "id3")
           r0 == [RqIdle EXCEPT !.n = rq.n + 1, !.handler = "delete_api", !.body = body, !.path = path,
                                !.store = fs,
                                !.ops = <<TagRead("id3", path, t.ok)>>]
       IN  IF ~t.ok
           THEN /\ fs' = fs
                /\ rq' = Panic(r0)
           ELSE LET art_path == DeletedArtwork(body, t.tag.cover)
                    f1 == IF t.tag.cover.some THEN RemoveFile(fs, art_path) ELSE fs
                    o1 == IF t.tag.cover.some
                          THEN <<FileOp("remove", art_path, TRUE)>> ELSE <<>>
                IN  \/ /\ t.tag.cover.some
                       /\ fs' = fs
                       /\ rq' = Respond([r0 EXCEPT !.ops = Append(@,
                                            FileOp("remove", art_path, FALSE))],
                                        [status |-> 500, body |-> "remove_file"])
                    \/ /\ t.tag.cover.some => art_path \in DOMAIN fs
                       /\ \E removed \in BOOLEAN :
                             LET r1 == [r0 EXCEPT !.ops = @ \o o1
                                                    \o <<FileOp("remove", path, removed)>>]
                             IN  IF removed
                                 THEN /\ fs' = RemoveFile(f1, path)
                                      /\ rq' = Respond(r1, [status |-> 200, body |-> "OK"])
                                 ELSE /\ fs' = f1
                                      /\ rq' = Respond(r1, [status |-> 500,
                                                            body |-> "remove_file"])
    /\ UNCHANGED <<ls, td, recently_played, playlist_session, calls, dl, cr, scan, art, dur, off, scanops>>

-----------------------------------------------------------------------------
(* list_file served while another request is in progress                   *)
(*                                                                         *)
(* The handlers share the store without a lock on a file: a step of        *)
(* another request can fall between a handler's read of a tag and what it  *)
(* does with it.  The turn of list_file's loop for one entry is two steps  *)
(* here, the read of the tag and what follows it.                          *)

LsIdle ==
    [pc |-> "idle", todo |-> {}, filename |-> "", tag |-> NoTag, files |-> <<>>,
     ops |-> <<>>, response |-> NoResponse]

LsNone == [LsIdle EXCEPT !.pc = "none"]

\* The listing request arrives: read_dir gives the entries of the store.
list_file_arrives ==
    /\ ls.pc = "idle"
    /\ ls' = [ls EXCEPT !.pc = "loop", !.todo = ReadDir(fs, MUSIC_DIR)]
    /\ UNCHANGED <<fs, rq, dl, cr, scan, art, dur, off, scanops,
                   td, recently_played, playlist_session, calls>>

\* The reader is chosen after the extension and the entry's tag is read.
list_file_read(filename) ==
    /\ ls.pc = "loop"
    /\ filename \in ls.todo
    /\ LET title == TitleOf(filename)
           reader == ReaderFor(ExtOf(filename))
           image == "/img/" \o title \o ".jpeg"
           music_path == MUSIC_DIR \o "/" \o filename
           l0 == [ls EXCEPT !.todo = @ \ {filename}]
       IN  IF reader = ""
           THEN ls' = l0
           ELSE LET t == ReadFromPath(fs, music_path, reader)
                    l1 == [l0 EXCEPT !.ops = Append(@, TagRead(reader, music_path, t.ok))]
                IN  ls' = IF ~t.ok
                          THEN [l1 EXCEPT !.files =
                                  Append(@, Track(filename, title, "Unknown", image))]
                          ELSE [l1 EXCEPT !.pc = "populate", !.filename = filename,
                                          !.tag = t.tag]
    /\ UNCHANGED <<fs, rq, dl, cr, scan, art, dur, off, scanops,
                   td, recently_played, playlist_session, calls>>

\* The artwork cache is populated from the tag that was read: the tag
\* written back is that tag with the converted cover, and a file that is no
\* longer at its path cannot be written.
list_file_populate ==
    /\ ls.pc = "populate"
    /\ LET title == TitleOf(ls.filename)
           image == "/img/" \o title \o ".jpeg"
           music_path == MUSIC_DIR \o "/" \o ls.filename
       IN  \E o \in Populate(fs, music_path, SubSeq(image, 2, Len(image)), ls.tag) :
              /\ \/ Exists(music_path)
                 \/ \A k \in 1..Len(o.ops) :
                       ~(o.ops[k].op = "write" /\ o.ops[k].path = music_path /\ o.ops[k].ok)
              /\ fs' = o.fs
              /\ LET l1 == [ls EXCEPT !.ops = @ \o o.ops]
                     artist == UnwrapOrElse(ls.tag.artist, "Unknown")
                 IN  ls' = IF o.panic THEN Panic(l1)
                           ELSE [l1 EXCEPT !.pc = "loop", !.files =
                                   Append(@, Track(ls.filename, title, artist, image))]
    /\ UNCHANGED <<rq, dl, cr, scan, art, dur, off, scanops,
                   td, recently_played, playlist_session, calls>>

\* The loop is over: the listing is answered.
list_file_respond ==
    /\ ls.pc = "loop"
    /\ ls.todo = {}
    /\ ls' = Respond(ls, [status |-> 200, body |-> "list_file"])
    /\ UNCHANGED <<fs, rq, dl, cr, scan, art, dur, off, scanops,
                   td, recently_played, playlist_session, calls>>

-----------------------------------------------------------------------------
(* temp_download                                                           *)

\* The ids a client asks for
TempIds == {"a", "b"}

TempPath(id) == "temp/" \o id \o ".mp3"
TempLink(id) == "/td/" \o id \o ".mp3"

\* What one run of the tool for temp_download is: a failed launch, or a run
\* with its exit status and what it wrote to stderr (stdout is discarded)
TempProcs ==
    {LaunchFailed(e) : e \in SpawnErrors}
        \cup {Launched(status, NotJson(""), err) :
                status \in {0, 1}, err \in {""} \cup Diagnostics}

\* What one run leaves at temp/<id>.mp3: nothing, an unfinished file, or
\* the finished file.  Only a run that wrote no diagnostics finishes it.
TempToolFiles(proc) ==
    IF ~proc.launched THEN {"none"}
    ELSE IF proc.stderr /= "" THEN {"none", "partial"}
    ELSE {"none", "partial", "full"}

TempToolWrite(f, id, file) ==
    CASE file = "none" -> f
      [] file = "partial" -> WriteFile(f, TempPath(id), AudioFile("none", "", None, NoCover))
      [] file = "full" -> WriteFile(f, TempPath(id), AudioFile("id3", id, None, NoCover))

\* path.exists() on the temp file
TempExists_Never(f, fp) == FALSE

TempExists(f, fp) == fp \in DOMAIN f

\* How temp_download's match reads one attempt
TempAttemptKind(proc) ==
    IF ~proc.launched THEN "spawn"
    ELSE IF proc.stderr /= "" THEN "stderr"
    ELSE "ok"

\* td: hist is the attempts made for the request, store the files as they
\* were when the request arrived.
TdIdle ==
    [pc |-> "idle", id |-> "", i |-> 0, hist |-> <<>>, store |-> <<>>,
     response |-> NoResponse]

TdNone == [TdIdle EXCEPT !.pc = "none"]

\* A temp-download request arrives: a temp file that exists is answered
\* with its link at once.
temp_download(id) ==
    /\ td.pc \in {"idle", "done"}
    /\ LET fp == TempPath(id)
           t0 == [TdIdle EXCEPT !.id = id, !.store = fs]
       IN  td' = IF TempExists(fs, fp)
                 THEN Respond(t0, [status |-> 200, body |-> TempLink(id)])
                 ELSE [t0 EXCEPT !.pc = "loop"]
    /\ UNCHANGED <<fs, rq, dl, cr, scan, art, dur, off, scanops,
                   ls, recently_played, playlist_session, calls>>

\* One turn of the loop: the tool is run once and its result is matched.
temp_download_attempt ==
    /\ td.pc = "loop"
    /\ \E proc \in TempProcs :
       \E file \in TempToolFiles(proc) :
          LET i == td.i + 1
              t1 == [td EXCEPT !.i = i, !.hist = Append(@, proc)]
              kind == TempAttemptKind(proc)
          IN  /\ fs' = TempToolWrite(fs, td.id, file)
              /\ td' = CASE kind = "stderr" ->
                              IF i = MAX_RETRIES
                              THEN Respond(t1, [status |-> 500, body |-> proc.stderr])
                              ELSE t1
                         [] kind = "spawn" ->
                              IF i = MAX_RETRIES
                              THEN Respond(t1, [status |-> 500,
                                                body |-> "Error spawn and capture proc: "
                                                           \o proc.err])
                              ELSE t1
                         [] OTHER ->
                              Respond(t1, [status |-> 200, body |-> TempLink(td.id)])
    /\ UNCHANGED <<rq, dl, cr, scan, art, dur, off, scanops,
                   ls, recently_played, playlist_session, calls>>

TempNext ==
    \/ \E id \in TempIds : temp_download(id)
    \/ temp_download_attempt

-----------------------------------------------------------------------------
(* The shared state under the mutex: the recently-played list and the      *)
(* playlist session                                                        *)

\* PlaylistSession::default()
PlaylistSessionDefault ==
    [is_empty |-> TRUE, current_time |-> 0, current_index |-> 0, queue |-> <<>>]

\* The JSON of a session: is_empty is skipped in both directions, and a
\* skipped field is given bool's default when a session is deserialized.
SessionToJson(session) ==
    [current_time |-> session.current_time, current_index |-> session.current_index,
     queue |-> session.queue]

SessionFromJson(json) ==
    [is_empty |-> FALSE, current_time |-> json.current_time,
     current_index |-> json.current_index, queue |-> json.queue]

\* The sessions a client saves
Sessions == [current_time : {0, 5}, current_index : {0, 1}, queue : {<<>>, <<"q">>}]

\* calls: n counts the calls made, handler, status and text are the last
\* call's handler and answer, track the track it was given, session the
\* session it returned; saved tells whether a session was saved since the
\* start or the last clear, and last is the session saved most recently.
NoCalls ==
    [n |-> 0, handler |-> "", status |-> 0, text |-> "",
     track |-> Track("", "", "", ""),
     session |-> SessionToJson(PlaylistSessionDefault), saved |-> FALSE,
     last |-> SessionToJson(PlaylistSessionDefault)]

\* The calls of one behaviour
MaxAdds == 2
MaxPlaylistCalls == 4

\* The length at which add_to_history evicts, and the tracks a client plays:
\* one more filename than the list can hold, each under two titles
HistoryCapacity == 10

HistoryFilenames ==
    <<"s1.mp3", "s2.mp3", "s3.mp3", "s4.mp3", "s5.mp3", "s6.mp3", "s7.mp3",
      "s8.mp3", "s9.mp3", "s10.mp3", "s11.mp3">>

HistoryTrack(k, title) ==
    Track(HistoryFilenames[k], title, "Up",
          "/img/" \o without_extension(HistoryFilenames[k]) \o ".jpeg")

HistoryTracks == {HistoryTrack(k, title) : k \in 1..Len(HistoryFilenames), title \in {"t", "u"}}

\* The list after the tracks k, k - 1, .., 1 were played in that order
HistoryLists == {[j \in 1..k |-> HistoryTrack(j, "t")] : k \in 0..HistoryCapacity}

\* impl PartialEq for Track
TrackEq_AllFields(a, b) == a = b

TrackEq(a, b) == a.filename = b.filename

\* VecDeque::contains, the position of the first equal element, remove,
\* pop_back and push_front
Contains(list, track) == \E j \in 1..Len(list) : TrackEq(list[j], track)

Position(list, track) ==
    CHOOSE j \in 1..Len(list) :
        /\ TrackEq(list[j], track)
        /\ \A i \in 1..j - 1 : ~TrackEq(list[i], track)

Remove(list, pos) == SubSeq(list, 1, pos - 1) \o SubSeq(list, pos + 1, Len(list))

PopBack(list) == IF list = <<>> THEN list ELSE SubSeq(list, 1, Len(list) - 1)

PushFront(list, track) == <<track>> \o list

\* The test that evicts the oldest track
HistoryFull_Above(len) == len > HistoryCapacity

HistoryFull(len) == len >= HistoryCapacity

\* A track is played: the whole handler runs with the mutex held.
add_to_history(track) ==
    /\ calls.n < MaxAdds
    /\ recently_played' =
          IF Contains(recently_played, track)
          THEN PushFront(Remove(recently_played, Position(recently_played, track)), track)
          ELSE PushFront(IF HistoryFull(Len(recently_played))
                         THEN PopBack(recently_played)
                         ELSE recently_played,
                         track)
    /\ calls' = [calls EXCEPT !.n = @ + 1, !.handler = "add_to_history",
                              !.status = 200, !.track = track]
    /\ UNCHANGED <<fs, rq, dl, cr, scan, art, dur, off, scanops,
                   ls, td, playlist_session>>

HistoryNext == \E track \in HistoryTracks : add_to_history(track)

\* The test of load_playlist and clear_playlist for a stored session
IsEmpty_NoQueue(session) == session.queue = <<>>

IsEmpty(session) == session.is_empty

\* The session is replaced by the one received.
save_playlist(json) ==
    /\ calls.n < MaxPlaylistCalls
    /\ playlist_session' = [SessionFromJson(json) EXCEPT !.is_empty = FALSE]
    /\ calls' = [calls EXCEPT !.n = @ + 1, !.handler = "save_playlist",
                              !.status = 200, !.text = "success",
                              !.saved = TRUE, !.last = json]
    /\ UNCHANGED <<fs, rq, dl, cr, scan, art, dur, off, scanops,
                   ls, td, recently_played>>

\* The stored session is returned, if there is one.
load_playlist ==
    /\ calls.n < MaxPlaylistCalls
    /\ calls' = IF IsEmpty(playlist_session)
                THEN [calls EXCEPT !.n = @ + 1, !.handler = "load_playlist",
                                   !.status = 404, !.text = "No session stored",
                                   !.session = SessionToJson(PlaylistSessionDefault)]
                ELSE [calls EXCEPT !.n = @ + 1, !.handler = "load_playlist",
                                   !.status = 200, !.text = "",
                                   !.session = SessionToJson(playlist_session)]
    /\ UNCHANGED <<fs, rq, dl, cr, scan, art, dur, off, scanops,
                   ls, td, recently_played, playlist_session>>

\* The stored session is dropped, if there is one.
clear_playlist ==
    /\ calls.n < MaxPlaylistCalls
    /\ playlist_session' = IF IsEmpty(playlist_session) THEN playlist_session
                           ELSE PlaylistSessionDefault
    /\ calls' = [calls EXCEPT !.n = @ + 1, !.handler = "clear_playlist",
                              !.status = 200, !.text = "Ok", !.saved = FALSE]
    /\ UNCHANGED <<fs, rq, dl, cr, scan, art, dur, off, scanops,
                   ls, td, recently_played>>

PlaylistNext ==
    \/ \E json \in Sessions : save_playlist(json)
    \/ load_playlist
    \/ clear_playlist

\* The handlers this model leaves out of a behaviour
NoOtherRequest ==
    /\ ls = LsNone /\ td = TdNone /\ calls = NoCalls
    /\ recently_played = <<>> /\ playlist_session = PlaylistSessionDefault

-----------------------------------------------------------------------------
(* Specifications                                                          *)

\* A handler that receives no request in a behaviour
DlNone == [DlIdle EXCEPT !.pc = "none"]
CrNone == [CrIdle EXCEPT !.pc = "none"]
RqNone == [RqIdle EXCEPT !.pc = "none"]

\* The pure computations, each already made for one input
ArtDone == [in |-> [artist |-> None, channel |-> None, uploader |-> None],
            out |-> [done |-> TRUE, v |-> "Unknown"]]
DurDone == [in |-> "", out |-> [done |-> TRUE, v |-> DurNone]]
OffDone == [width |-> 0, height |-> 0, out |-> [done |-> TRUE, v |-> OffsetOk(0)]]

\* Artist::get on every Artist
InitArtist ==
    /\ art \in [in : Artists, out : {NoResult}]
    /\ dur = DurDone /\ off = OffDone
    /\ fs = <<>> /\ dl = DlNone /\ cr = CrNone /\ scan = {}
    /\ rq = RqNone /\ scanops = <<>>
    /\ NoOtherRequest

SpecArtist == InitArtist /\ [][ArtistResolve]_vars

\* The duration block on every string of the alphabet up to MaxDurLen
InitDuration ==
    /\ dur \in [in : DurationStrings, out : {NoResult}]
    /\ art = ArtDone /\ off = OffDone
    /\ fs = <<>> /\ dl = DlNone /\ cr = CrNone /\ scan = {}
    /\ rq = RqNone /\ scanops = <<>>
    /\ NoOtherRequest

SpecDuration == InitDuration /\ [][SearchMusicDuration]_vars

\* find_offset_to_center on every size up to MaxDim
InitOffset ==
    /\ off \in [width : Dims, height : Dims, out : {NoResult}]
    /\ art = ArtDone /\ dur = DurDone
    /\ fs = <<>> /\ dl = DlNone /\ cr = CrNone /\ scan = {}
    /\ rq = RqNone /\ scanops = <<>>
    /\ NoOtherRequest

SpecOffset == InitOffset /\ [][FindOffset]_vars

\* The track store a download request may find: empty, or holding what an
\* earlier download of "A" left.
EarlierVideos ==
    {v \in Videos : /\ v.title = "A"
                    /\ v.description = None
                    /\ v.cover \in {NoCover,
                                    Picture(ImageBytes("jpeg", 2, 1, 0, "orig"), "jpeg")}}

InitialStores == {<<>>} \cup {ToolWrite(<<>>, v, "full") : v \in EarlierVideos}

InitDownload ==
    /\ fs \in InitialStores
    /\ dl = DlIdle /\ cr = CrNone /\ scan = {}
    /\ rq = RqNone /\ scanops = <<>>
    /\ NoOtherRequest
    /\ art = ArtDone /\ dur = DurDone /\ off = OffDone

SpecDownload == InitDownload /\ [][DownloadNext]_vars

\* The track store at start-up for the crop endpoint: one track "A.mp3"
\* whose cover is a JPEG or a PNG of any size up to MaxCover; the scan task
\* for it has not run yet.
Libraries ==
    {WriteFile(<<>>, MUSIC_DIR \o "/A.mp3",
               AudioFile("id3", "A", Some("Up"),
                         Picture(ImageBytes(m, w, h, 0, "orig"), m))) :
        m \in {"jpeg", "png"}, w \in 1..MaxCover, h \in 1..MaxCover}

InitCrop ==
    /\ fs \in Libraries
    /\ scan = {"A.mp3"}
    /\ dl = DlNone /\ cr = CrIdle
    /\ rq = RqNone /\ scanops = <<>>
    /\ NoOtherRequest
    /\ art = ArtDone /\ dur = DurDone /\ off = OffDone

ScanNext == \E filename \in scan : startup_scan(filename)

\* Everything that calls find_offset_to_center, and the function itself
InitCropping == InitOffset \/ InitDownload \/ InitCrop

CroppingNext == FindOffset \/ DownloadNext \/ CropNext \/ ScanNext

SpecCropping == InitCropping /\ [][CroppingNext]_vars

\* The track store of the library: "A.mp3" with no cover, a JPEG cover, a
\* PNG cover, a cover declared PNG whose bytes are no PNG, or no readable
\* tag; alone, or with "B.m4a" and a file "n.txt" put in the store after
\* the server started; the artwork of a JPEG cover may have been cached by
\* an earlier run of the server.
LibraryCovers ==
    {NoCover,
     Picture(ImageBytes("jpeg", 2, 1, 0, "orig"), "jpeg"),
     Picture(ImageBytes("png", 2, 1, 0, "orig"), "png"),
     Picture(BadBytes, "png")}

LibraryA ==
    {AudioFile("id3", "A", Some("Up"), c) : c \in LibraryCovers}
        \cup {AudioFile("none", "", None, NoCover)}

LibraryB ==
    AudioFile("mp4", "B", Some("Up, Ft"),
              Picture(ImageBytes("jpeg", 1, 1, 0, "orig"), "jpeg"))

With(f, present, path, content) == IF present THEN WriteFile(f, path, content) ELSE f

LibraryStores ==
    {With(With(With(WriteFile(<<>>, MUSIC_DIR \o "/A.mp3", a),
                    others, MUSIC_DIR \o "/B.m4a", LibraryB),
               others, MUSIC_DIR \o "/n.txt", OtherFile),
          cached /\ a.cover.some /\ a.cover.mime = "jpeg", ImagePath("A"), a.cover.data) :
        a \in LibraryA, others \in BOOLEAN, cached \in BOOLEAN}

\* The requests of the library's client
Upload == ImageBytes("png", 3, 2, 0, "orig")
UploadJpeg == ImageBytes("jpeg", 3, 2, 0, "orig")

EditRequests ==
    {<<TextField("filename", f), TextField("title", t)>> :
        f \in {"A.mp3", "B.m4a"}, t \in Titles}
    \cup {<<TextField("filename", "A.mp3"), TextField("title", t),
            FileField("thumbnail", Some(ct), Upload)>> :
            t \in Titles, ct \in {"image/png", "image/webp", "text/plain"}}
    \cup {<<TextField("filename", "A.mp3"), TextField("title", "A"),
            FileField("thumbnail", None, Upload)>>,
          <<TextField("filename", "A.mp3"), TextField("title", "A"),
            FileField("thumbnail", Some("image/png"), EmptyBytes)>>,
          <<TextField("filename", "A.mp3"), TextField("title", "A"),
            FileField("thumbnail", Some("image/png"), Upload),
            FileField("thumbnail", Some("text/plain"), Upload)>>,
          <<TextField("filename", "A.mp3"), TextField("title", "A"),
            FileField("thumbnail", Some("image/jpeg"), UploadJpeg)>>,
          <<TextField("filename", "A.mp3"),
            FileField("thumbnail", Some("image/jpeg"), UploadJpeg),
            TextField("title", "A")>>,
          <<TextField("filename", "A.mp3"),
            FileField("thumbnail", Some("image/jpeg"), UploadJpeg)>>,
          <<TextField("title", "B"), TextField("filename", "A.mp3")>>,
          <<TextField("filename", "A.mp3"), TextField("artist", "X"),
            TextField("album", "Z")>>}

DeleteBodies == {"A.mp3", "B.m4a"}

InitLibrary ==
    /\ fs \in LibraryStores
    /\ scan = {"A.mp3"}
    /\ scanops = <<>>
    /\ NoOtherRequest
    /\ rq = RqIdle /\ cr = CrIdle /\ dl = DlNone
    /\ art = ArtDone /\ dur = DurDone /\ off = OffDone

\* The tasks of the start-up scan run before the first request; the client
\* sends a request once the previous one has ended, and one crop request at
\* most.
Quiet == rq.pc \in RqTerminal /\ cr.pc \in {"idle", "done", "panicked"}

LibraryCrops ==
    {[filename |-> "A.mp3", image |-> "/img/A.jpeg"],
     [filename |-> "B.mp3", image |-> "/img/B.jpeg"]}

LibraryNext ==
    \/ Quiet /\ list_file
    \/ Quiet /\ group_by_artist
    \/ Quiet /\ \E multipart \in EditRequests : edit_api(multipart)
    \/ Quiet /\ \E body \in DeleteBodies : delete_api(body)
    \/ Quiet /\ cr.pc = "idle" /\ \E body \in LibraryCrops : crop_api_open(body)
    \/ \E filename \in rq.todo : listing_entry(filename)
    \/ listing_finish
    \/ edit_api_field
    \/ edit_api_write
    \/ edit_api_rename
    \/ crop_api_tag
    \/ rq.pc = "idle" /\ cr.pc = "idle" /\ ScanNext

SpecLibrary == InitLibrary /\ [][LibraryNext]_vars

\* An edit request and a listing request served at the same time, after the
\* start-up scan: their steps interleave freely.
InitRace ==
    /\ fs \in LibraryStores
    /\ scan = {}
    /\ scanops = <<>>
    /\ rq = RqIdle /\ ls = LsIdle /\ cr = CrNone /\ dl = DlNone
    /\ art = ArtDone /\ dur = DurDone /\ off = OffDone
    /\ td = TdNone /\ calls = NoCalls
    /\ recently_played = <<>> /\ playlist_session = PlaylistSessionDefault

RaceNext ==
    \/ \E multipart \in EditRequests : edit_api(multipart)
    \/ edit_api_field
    \/ edit_api_write
    \/ edit_api_rename
    \/ list_file_arrives
    \/ \E filename \in ls.todo : list_file_read(filename)
    \/ list_file_populate
    \/ list_file_respond

SpecRace == InitRace /\ [][RaceNext]_vars

\* temp_download alone; the temp directory is empty when the server starts.
InitTemp ==
    /\ fs = <<>>
    /\ td = TdIdle
    /\ scan = {} /\ scanops = <<>>
    /\ rq = RqNone /\ ls = LsNone /\ cr = CrNone /\ dl = DlNone
    /\ art = ArtDone /\ dur = DurDone /\ off = OffDone
    /\ calls = NoCalls
    /\ recently_played = <<>> /\ playlist_session = PlaylistSessionDefault

SpecTemp == InitTemp /\ [][TempNext]_vars

\* add_to_history alone, on a list that earlier plays left
InitHistory ==
    /\ recently_played \in HistoryLists
    /\ playlist_session = PlaylistSessionDefault /\ calls = NoCalls
    /\ fs = <<>> /\ scan = {} /\ scanops = <<>>
    /\ rq = RqNone /\ ls = LsNone /\ cr = CrNone /\ dl = DlNone /\ td = TdNone
    /\ art = ArtDone /\ dur = DurDone /\ off = OffDone

SpecHistory == InitHistory /\ [][HistoryNext]_vars

\* The playlist handlers alone, from the session the server starts with
InitPlaylist ==
    /\ playlist_session = PlaylistSessionDefault /\ calls = NoCalls
    /\ recently_played = <<>>
    /\ fs = <<>> /\ scan = {} /\ scanops = <<>>
    /\ rq = RqNone /\ ls = LsNone /\ cr = CrNone /\ dl = DlNone /\ td = TdNone
    /\ art = ArtDone /\ dur = DurDone /\ off = OffDone

SpecPlaylist == InitPlaylist /\ [][PlaylistNext]_vars

-----------------------------------------------------------------------------
(* The claims                                                              *)

Last(seq) == seq[Len(seq)]

\* What the last attempt was, read off the attempt itself
ProcFailed(p) == ~p.launched \/ p.stderr /= ""

AfterLoop == {"parse", "open", "crop", "write", "done", "panicked"}

\* C1: download_file runs the tool one attempt at a time and at most 3
\* times.  Every attempt before the last one failed; an attempt that
\* succeeds is the last one, and its standard output is the result used;
\* a failed attempt is retried while fewer than 3 were made, and the third
\* failure ends the request with a terminal error: the loop never stands
\* before a fourth attempt.
C1_BoundedRetry ==
    LET n == Len(dl.hist)
    IN  /\ n = dl.i
        /\ n <= 3
        /\ \A k \in 1..(n - 1) : dl.hist[k] /= "ok"
        /\ dl.pc = "loop" => n < 3 /\ \A k \in 1..n : dl.hist[k] /= "ok"
        /\ (n >= 1 /\ Last(dl.hist) = "ok") =>
              /\ dl.pc \in AfterLoop
              /\ ~ProcFailed(dl.proc)
              /\ dl.stdout = dl.proc.stdout
        /\ (n >= 1 /\ n < 3 /\ Last(dl.hist) /= "ok") => dl.pc = "loop"
        /\ (n = 3 /\ Last(dl.hist) /= "ok") =>
              /\ dl.pc = "done"
              /\ dl.response.status \in {400, 500}

\* C1 witness: fail, fail, succeed: three invocations, and the third's
\* output (the video's JSON) is what the answer is made of.
C1_Witness ==
    /\ dl.hist = <<"spawn", "stderr", "ok">>
    /\ dl.i = 3
    /\ dl.pc = "done"
    /\ dl.response.status = 200
    /\ dl.stdout = JsonText(InfoJson(dl.video))

\* C2: the last attempt counts as failed exactly when its launch failed or
\* its stderr is non-empty, whatever its exit status and its stdout: a
\* failed attempt leaves the request in the loop while attempts remain and
\* passes nothing on; a successful one leaves the loop with its stdout as
\* the text to parse.
C2_FailureIsLaunchOrStderr ==
    dl.i >= 1 =>
        /\ ProcFailed(dl.proc) <=> Last(dl.hist) /= "ok"
        /\ ProcFailed(dl.proc) =>
              /\ dl.pc \in {"loop", "done"}
              /\ dl.pc = "loop" <=> dl.i < 3
              /\ dl.stdout = NotJson("")
              /\ dl.parsed = NoParsed
              /\ dl.ops = <<>>
        /\ ~ProcFailed(dl.proc) =>
              /\ dl.pc \in AfterLoop
              /\ dl.stdout = dl.proc.stdout

\* C2 witness: an attempt that exited non-zero with nothing on stdout and
\* nothing on stderr is taken as the successful one.
C2_Witness ==
    /\ dl.pc = "parse"
    /\ dl.proc.launched /\ dl.proc.stderr = ""
    /\ dl.proc.status = 1
    /\ dl.proc.stdout = NotJson("")

\* C3: after three failed attempts the answer is made of the third attempt
\* alone: 400 with its stderr text when it wrote diagnostics, 500 with the
\* text of its launch error when it failed to launch.
C3_TerminalErrorOfLastAttempt ==
    (dl.i = 3 /\ ProcFailed(dl.proc)) =>
        /\ dl.pc = "done"
        /\ dl.proc.launched =>
              dl.response = [status |-> 400, body |-> dl.proc.stderr]
        /\ ~dl.proc.launched =>
              dl.response =
                 [status |-> 500,
                  body |-> "Failed to spawn and capture output: "
                              \o dl.proc.err \o "\n" \o dl.proc.err]

\* C3 witness: two launch failures, then diagnostics: the answer is a 400.
C3_Witness ==
    /\ dl.hist = <<"spawn", "spawn", "stderr">>
    /\ dl.pc = "done"
    /\ dl.response = [status |-> 400, body |-> "ERROR: unavailable"]

\* C4: when the taken stdout does not parse, the next step of the request
\* answers with the parse error, which no retry-exhausted error equals; it
\* makes no further attempt, opens no file and changes no file.
C4_ParseFailureIsTerminal ==
    [][(dl.pc = "parse" /\ ~ParseDownloadResponse(dl.stdout).ok) =>
          /\ dl'.pc = "done"
          /\ dl'.response = [status |-> 500, body |-> "Failed to parse JSON"]
          /\ \A p \in Procs(dl.video) :
                ProcFailed(p) => TerminalError(p) /= dl'.response
          /\ dl'.hist = dl.hist /\ dl'.i = dl.i
          /\ dl'.ops = <<>>
          /\ fs' = fs]_vars

\* C4 witness: the first attempt succeeded with a JSON object that lacks
\* the title, and the request ended with the parse error after one attempt.
C4_Witness ==
    /\ dl.pc = "done"
    /\ dl.i = 1
    /\ dl.stdout = JsonText(WithoutKey(InfoJson(dl.video), "title"))
    /\ dl.response = [status |-> 500, body |-> "Failed to parse JSON"]
    /\ dl.ops = <<>>

\* C5: Artist::get returns artist when present, else uploader when
\* present, else channel when present, else "Unknown".
C5_ArtistPriority ==
    art.out.done =>
        LET a == art.in
        IN  /\ a.artist.some => art.out.v = a.artist.v
            /\ (~a.artist.some /\ a.uploader.some) => art.out.v = a.uploader.v
            /\ (~a.artist.some /\ ~a.uploader.some /\ a.channel.some) =>
                  art.out.v = a.channel.v
            /\ (~a.artist.some /\ ~a.uploader.some /\ ~a.channel.some) =>
                  art.out.v = "Unknown"

\* C5 witness: {artist absent, uploader "U", channel "C"} resolved to "U".
C5_Witness ==
    /\ art.in = [artist |-> None, channel |-> Some("C"), uploader |-> Some("U")]
    /\ art.out.done
    /\ art.out.v = "U"

IsNumeric(s) == Len(s) >= 1 /\ \A i \in 1..Len(s) : CharAt(s, i) \in Digits

\* C6: a duration string of exactly two colon-delimited numeric parts m:s
\* gives m*60 + s; every other string gives an absent duration, never an
\* abort.
C6_DurationNeverAborts ==
    dur.out.done =>
        LET parts == Split(dur.in, ":")
        IN  IF Len(parts) = 2 /\ IsNumeric(parts[1]) /\ IsNumeric(parts[2])
            THEN dur.out.v = DurSome(DecimalValue(parts[1], Len(parts[1])) * 60
                                        + DecimalValue(parts[2], Len(parts[2])))
            ELSE dur.out.v = DurNone

FinisherRan == dl.ops /= <<>>

Writes(ops) == {k \in 1..Len(ops) : ops[k].op = "write"}

\* C7: the finisher runs only for a description that begins with the
\* marker; a request it ends with success on a cover with width /= height
\* has left the same height-by-height JPEG in img/<title>.jpeg and in the
\* track's embedded cover; on a square cover it writes nothing and the
\* request succeeds; without the marker the request touches no file.
C7_FinisherWritesSquareToBoth ==
    /\ FinisherRan =>
          /\ dl.parsed.description.some
          /\ StartsWith(dl.parsed.description.v, Marker)
    /\ (dl.pc = "done" /\ dl.response.status = 200 /\ FinisherRan
            /\ dl.img.width /= dl.img.height) =>
          LET ip == ImagePath(dl.parsed.title)
              mp == MusicPath(dl.parsed.title)
          IN  /\ ip \in DOMAIN fs /\ mp \in DOMAIN fs
              /\ fs[ip].fmt = "jpeg"
              /\ fs[ip].width = dl.img.height /\ fs[ip].height = dl.img.height
              /\ fs[mp].cover = Picture(fs[ip], "jpeg")
    /\ (dl.pc = "done" /\ FinisherRan /\ dl.img /= NoPixels
            /\ dl.img.width = dl.img.height) =>
          /\ dl.response.status = 200
          /\ Writes(dl.ops) = {}
    /\ (dl.pc = "done" /\ dl.parsed /= NoParsed
            /\ ~FinisherRuns(dl.parsed.description)) => dl.ops = <<>>

\* C8: a request whose finishing failed has been answered with a server
\* error, and the audio file the tool wrote is still in the track store.
C8_FinishingFailureIsServerError ==
    /\ dl.pc = "panicked" => dl.response.status = 500
    /\ (dl.pc \in {"done", "panicked"} /\ FinisherRan /\ dl.response.status /= 200) =>
          /\ dl.response.status = 500
          /\ dl.ops[1].ok => MusicPath(dl.parsed.title) \in DOMAIN fs

Abs(n) == IF n < 0 THEN -n ELSE n

\* C9: for width >= height >= 1 find_offset_to_center returns
\* (width div 2) - (height div 2) without underflow; the crop of
\* height x height at that offset lies inside the image, and its left and
\* right margins differ by at most 1.
C9_OffsetCentres ==
    (off.out.done /\ off.width >= off.height /\ off.height >= 1) =>
        LET w == off.width
            h == off.height
            o == off.out.v.v
        IN  /\ ~off.out.v.panic
            /\ o = (w \div 2) - (h \div 2)
            /\ o >= 0
            /\ o + h <= w
            /\ Crop(Pixels(w, h, 0), o, 0, h, h) = Pixels(h, h, o)
            /\ Abs(o - (w - h - o)) <= 1

\* C9 witness: 5 x 2 gives offset 1 (margins 1 and 2).
C9_Witness ==
    /\ off.out.done
    /\ off.width = 5 /\ off.height = 2
    /\ off.out.v = OffsetOk(1)

\* An outcome of the u32 subtraction that underflowed: the panic of a
\* debug build or the wrapped value of a release build
Underflowed(r) == r.panic \/ r.v < 0

\* The callers call find_offset_to_center on every size with
\* width /= height, height > width included.
CallersDoNotGuard ==
    /\ (dl.img.height > dl.img.width) => (dl.pc = "crop" \/ dl.called)
    /\ dl.called => dl.offset \in find_offset_to_center(dl.img.width, dl.img.height)
    /\ (cr.img.height > cr.img.width) => cr.called
    /\ cr.called => cr.offset \in find_offset_to_center(cr.img.width, cr.img.height)

\* C10 as stated: for every image with height > width the subtraction in
\* find_offset_to_center underflows, and neither caller guards against
\* height > width.
C10_TallAlwaysUnderflows ==
    /\ (off.out.done /\ off.height > off.width) => Underflowed(off.out.v)
    /\ CallersDoNotGuard

\* C10 as amended: the subtraction underflows exactly when
\* height div 2 > width div 2, which is every height > width except
\* height = width + 1 with width even; neither caller guards against
\* height > width before the call.
C10_UnderflowIffHalvesDiffer ==
    /\ off.out.done =>
          LET w == off.width
              h == off.height
          IN  /\ Underflowed(off.out.v) => (h \div 2) > (w \div 2)
              /\ ((h \div 2) > (w \div 2)) => Underflowed(off.out.v)
              /\ (h > w /\ ~(w % 2 = 0 /\ h = w + 1)) => Underflowed(off.out.v)
              /\ (w % 2 = 0 /\ h = w + 1) => off.out.v = OffsetOk(0)
    /\ CallersDoNotGuard

\* C10 witness: the finisher called find_offset_to_center on a cover
\* taller than wide and the subtraction underflowed.
C10_Witness ==
    /\ dl.called
    /\ dl.img.height > dl.img.width
    /\ Underflowed(dl.offset)

-----------------------------------------------------------------------------
(* The claims about the library handlers                                   *)

\* The cache file of a directory entry
CacheOf(filename) == IMG_DIR \o "/" \o TitleOf(filename) \o ".jpeg"

\* The decodings, encodings and writes among logged operations
Work(ops) == SelectSeq(ops, LAMBDA o : o.op \in {"decode", "encode", "write"})

\* The entry a step of a listing, or of the start-up scan, takes up
ListingTakes(filename) == rq.pc = "loop" /\ filename \in rq.todo \ rq'.todo
ScanTakes(filename) == filename \in scan \ scan'

\* C11 as stated: population is a no-op on a cache hit.  Whenever list_file,
\* group_by_artist or the start-up scan takes up a track whose cache file
\* img/<title>.jpeg exists, it decodes and encodes nothing, writes neither
\* the cache file nor the tag, and leaves the store as it is.
C11_CacheHitIsNoOp ==
    [][/\ \A filename \in rq.todo :
             (ListingTakes(filename) /\ Exists(CacheOf(filename))) =>
                 /\ fs' = fs
                 /\ Work(rq'.ops) = Work(rq.ops)
       /\ \A filename \in scan :
             (ScanTakes(filename) /\ Exists(CacheOf(filename))) =>
                 /\ fs' = fs
                 /\ scanops' = scanops]_vars

\* A track file whose embedded cover is declared with one of the formats
HasCover(f, path, mimes) ==
    /\ path \in DOMAIN f
    /\ f[path].kind = "audio"
    /\ f[path].cover.some
    /\ f[path].cover.mime \in mimes

TrackPath(filename) == MUSIC_DIR \o "/" \o filename

\* The operations a step of the request added to its log
NewOps == SubSeq(rq'.ops, Len(rq.ops) + 1, Len(rq'.ops))

Logged(ops, op) == \E k \in 1..Len(ops) : ops[k] = op

\* C12: for a track whose embedded cover is declared JPEG, a step of
\* list_file or group_by_artist never writes the track's tag and decodes or
\* encodes nothing: the track file, and so its embedded cover bytes, are
\* left as they are, and a cache file that appears holds exactly the
\* embedded bytes.
C12_JpegCoverNeverRewritten ==
    [][\A filename \in rq.todo :
          (ListingTakes(filename) /\ HasCover(fs, TrackPath(filename), {"jpeg"})) =>
              /\ TrackPath(filename) \in DOMAIN fs'
              /\ fs'[TrackPath(filename)] = fs[TrackPath(filename)]
              /\ \A k \in 1..Len(NewOps) :
                    /\ NewOps[k].op \in {"read", "write"}
                    /\ NewOps[k].op = "write" => NewOps[k].path = CacheOf(filename)
              /\ (~Exists(CacheOf(filename)) /\ CacheOf(filename) \in DOMAIN fs') =>
                    fs'[CacheOf(filename)] = fs[TrackPath(filename)].cover.data
              /\ \A p \in DOMAIN fs : p /= CacheOf(filename) =>
                    p \in DOMAIN fs' /\ fs'[p] = fs[p]]_vars

\* C12 witness: a listing has ended that wrote img/A.jpeg on a miss; the
\* file holds the bytes embedded in music/A.mp3, which are the original ones.
C12_Witness ==
    /\ rq.handler \in {"list_file", "group_by_artist"}
    /\ rq.pc = "done"
    /\ ~(ImagePath("A") \in DOMAIN rq.store)
    /\ Logged(rq.ops, FileOp("write", ImagePath("A"), TRUE))
    /\ HasCover(fs, TrackPath("A.mp3"), {"jpeg"})
    /\ fs[TrackPath("A.mp3")] = rq.store[TrackPath("A.mp3")]
    /\ fs[TrackPath("A.mp3")].cover.data.enc = "orig"
    /\ fs[ImagePath("A")] = fs[TrackPath("A.mp3")].cover.data

\* A step of a listing that read the track's tag and went on to the next
\* entry: its population, if any, completed.
PopulationCompleted(filename) ==
    /\ ListingTakes(filename)
    /\ rq'.pc = "loop"
    /\ Logged(NewOps, TagRead(ReaderFor(ExtOf(filename)), TrackPath(filename), TRUE))

\* C13: when list_file or group_by_artist completes the population of a
\* track whose embedded cover is declared PNG, BMP, GIF or TIFF and whose
\* cache file is missing, the track's embedded cover is afterwards declared
\* JPEG and its bytes are the bytes of img/<title>.jpeg.
C13_NormalizedCoverEqualsCache ==
    [][\A filename \in rq.todo :
          (/\ PopulationCompleted(filename)
           /\ HasCover(fs, TrackPath(filename), MimeTypes \ {"jpeg"})
           /\ ~Exists(CacheOf(filename))) =>
              /\ HasCover(fs', TrackPath(filename), {"jpeg"})
              /\ CacheOf(filename) \in DOMAIN fs'
              /\ fs'[CacheOf(filename)] = fs'[TrackPath(filename)].cover.data
              /\ fs'[CacheOf(filename)].fmt = "jpeg"]_vars

\* C13 witness: a listing has ended on a store where music/A.mp3 had a PNG
\* cover and no cache file; the cover is now a JPEG this program encoded,
\* and img/A.jpeg holds the same bytes.
C13_Witness ==
    /\ rq.handler \in {"list_file", "group_by_artist"}
    /\ rq.pc = "done"
    /\ HasCover(rq.store, TrackPath("A.mp3"), {"png"})
    /\ ~(ImagePath("A") \in DOMAIN rq.store)
    /\ HasCover(fs, TrackPath("A.mp3"), {"jpeg"})
    /\ fs[TrackPath("A.mp3")].cover.data = ImageBytes("jpeg", 2, 1, 0, "re")
    /\ fs[ImagePath("A")] = fs[TrackPath("A.mp3")].cover.data

\* The files of the image directory named after a title
Artefacts(f, title) ==
    {p \in DOMAIN f : StartsWith(p, IMG_DIR \o "/")
                      /\ without_extension(p) = IMG_DIR \o "/" \o title}

\* A track file with a recognised extension, a readable tag and a cover
ListedWithCover(f, filename) ==
    /\ ReaderFor(ExtOf(filename)) /= ""
    /\ ReadFromPath(f, TrackPath(filename), ReaderFor(ExtOf(filename))).ok
    /\ f[TrackPath(filename)].cover.some

\* The step that answers a listing
ListingCompletes == rq.pc = "loop" /\ rq'.pc = "done"

\* C14 as stated: when list_file or group_by_artist completes, every track
\* file with a recognised extension, a readable tag and an embedded cover
\* has exactly one artefact in the image directory, img/<title>.jpeg,
\* whatever listings, edits, crops and deletes came before.
C14_OneArtefactPerTrack ==
    [][ListingCompletes =>
          \A filename \in ReadDir(fs', MUSIC_DIR) :
              ListedWithCover(fs', filename) =>
                  Artefacts(fs', TitleOf(filename)) = {CacheOf(filename)}]_vars

\* The texts of the fields of a name in a multipart request
FieldTexts(req, name) ==
    LET sel == SelectSeq(req, LAMBDA fld : fld.name = name)
    IN  [k \in 1..Len(sel) |-> sel[k].text]

\* An edit request with one filename field and one title field
PlainEdit(r) ==
    /\ r.handler = "edit_api"
    /\ Len(FieldTexts(r.req, "filename")) = 1
    /\ Len(FieldTexts(r.req, "title")) = 1

EditFilename(r) == FieldTexts(r.req, "filename")[1]
EditTitle(r) == FieldTexts(r.req, "title")[1]

Renames(ops) == {k \in 1..Len(ops) : ops[k].op = "rename"}

\* The step that answers an edit with success
EditSucceeds ==
    /\ rq.handler = "edit_api"
    /\ rq.pc \in {"fields", "rename"}
    /\ rq'.pc = "done"
    /\ rq'.response.status = 200

\* C15: an edit of music/<A>.<ext> whose title B is not the file name's stem
\* first writes the tag, with B as its title, to the old path, and only in
\* a later step renames the file; once it has succeeded music/<B>.<ext>
\* exists with stored title B, music/<A>.<ext> does not, and the last two
\* operations were that write and that rename.  An edit whose title is the
\* stem renames nothing.
C15_PersistThenRename ==
    [][/\ (PlainEdit(rq) /\ rq.pc = "fields" /\ rq'.pc = "rename") =>
             /\ EditTitle(rq) /= without_extension(EditFilename(rq))
             /\ Renames(rq'.ops) = {}
             /\ TrackPath(EditFilename(rq)) \in DOMAIN fs'
             /\ fs'[TrackPath(EditFilename(rq))].title = EditTitle(rq)
             /\ DOMAIN fs' = DOMAIN fs
       /\ (PlainEdit(rq) /\ EditSucceeds
              /\ EditTitle(rq) /= without_extension(EditFilename(rq))) =>
             LET old == TrackPath(EditFilename(rq))
                 ext == SubSeq(EditFilename(rq), Len(without_extension(EditFilename(rq))) + 1,
                               Len(EditFilename(rq)))
                 new == MUSIC_DIR \o "/" \o EditTitle(rq) \o ext
                 n == Len(rq'.ops)
             IN  /\ rq.pc = "rename"
                 /\ new \in DOMAIN fs'
                 /\ old \notin DOMAIN fs'
                 /\ fs'[new].title = EditTitle(rq)
                 /\ fs'[new] = fs[old]
                 /\ n >= 2
                 /\ rq'.ops[n - 1] = FileOp("write", old, TRUE)
                 /\ rq'.ops[n].op = "rename" /\ rq'.ops[n].path = old
                 /\ rq'.ops[n].to = new /\ rq'.ops[n].ok
       /\ (PlainEdit(rq) /\ EditSucceeds
              /\ EditTitle(rq) = without_extension(EditFilename(rq))) =>
             /\ rq.pc = "fields"
             /\ Renames(rq'.ops) = {}
             /\ TrackPath(EditFilename(rq)) \in DOMAIN fs'
             /\ {p \in DOMAIN fs' : StartsWith(p, MUSIC_DIR \o "/")}
                    = {p \in DOMAIN rq.store : StartsWith(p, MUSIC_DIR \o "/")}]_vars

\* C15 witness: the edit (filename A.mp3, title B) has succeeded:
\* music/B.mp3 holds the title B, music/A.mp3 is gone, and the tag was
\* written to music/A.mp3 before the rename.
C15_Witness ==
    /\ rq.handler = "edit_api"
    /\ rq.pc = "done"
    /\ rq.response.status = 200
    /\ rq.req = <<TextField("filename", "A.mp3"), TextField("title", "B")>>
    /\ TrackPath("B.mp3") \in DOMAIN fs
    /\ TrackPath("A.mp3") \notin DOMAIN fs
    /\ fs[TrackPath("B.mp3")].title = "B"
    /\ Len(rq.ops) = 3
    /\ rq.ops[2] = FileOp("write", TrackPath("A.mp3"), TRUE)
    /\ rq.ops[3].op = "rename"

\* The step that answers a delete with success
DeleteSucceeds ==
    /\ rq'.handler = "delete_api"
    /\ rq'.n = rq.n + 1
    /\ rq'.pc = "done"
    /\ rq'.response.status = 200

\* C16 as stated: once delete_api has answered success for a track, neither
\* the track file music/<filename> nor its cached artwork img/<title>.jpeg
\* exists, whatever listings, edits and crops came before.
C16_DeleteRemovesTrackAndArtwork ==
    [][DeleteSucceeds =>
          /\ TrackPath(rq'.body) \notin DOMAIN fs'
          /\ CacheOf(rq'.body) \notin DOMAIN fs']_vars

\* The steps that end a request with an input error
EditRejected ==
    /\ rq.handler = "edit_api"
    /\ rq.pc = "fields"
    /\ rq'.pc = "done"
    /\ rq'.response = [status |-> 400, body |-> "Invalid content type"]

CropRejected ==
    /\ cr' /= cr
    /\ cr'.pc = "done"
    /\ cr'.response = [status |-> 400, body |-> "Already square"]

\* C17 as stated: a request that ends with an input error has mutated
\* nothing.  When edit_api rejects a thumbnail for its content type, and
\* when crop_api rejects an image that is already square, every file of the
\* store is as it was when the request arrived, whatever fields came before
\* the rejected one.
C17_InputErrorMutatesNothing ==
    [][/\ EditRejected => fs' = rq.store
       /\ CropRejected => fs' = fs]_vars

\* C18 as stated: every read of a track's tag is made with the reader its
\* file's extension selects: the ID3 reader for .mp3, the MP4 reader for
\* .mp4 and .m4a; no .mp4 or .m4a file is opened with the ID3 reader.
C18_ReaderFollowsExtension ==
    \A k \in 1..Len(rq.ops) :
        rq.ops[k].op = "read" =>
            /\ rq.ops[k].reader = ReaderFor(ExtOf(rq.ops[k].path))
            /\ ExtOf(rq.ops[k].path) \in {"mp4", "m4a"} => rq.ops[k].reader /= "id3"

\* The extensions the listings recognise
Recognised(filename) == ExtOf(filename) \in {"mp3", "mp4", "m4a"}

Filenames(files) == {files[k].filename : k \in 1..Len(files)}

C20_PerTrackErrorNeverAborts ==
    rq.handler \in {"list_file", "group_by_artist"} => rq.pc /= "panicked"

\* A step of edit_api or delete_api in which the read of the track's tag
\* failed
TagReadFails ==
    /\ rq'.handler \in {"edit_api", "delete_api"}
    /\ \E k \in 1..Len(rq'.ops) :
          /\ rq'.ops[k].op = "read"
          /\ ~rq'.ops[k].ok
          /\ rq'.n /= rq.n \/ k > Len(rq.ops)

\* C21 as stated: when edit_api or delete_api cannot read the tag of the
\* selected track, the request ends in that step with an error response,
\* and the store is as it was when the request arrived.
C21_UnreadableTagIsErrorResponse ==
    [][TagReadFails =>
          /\ rq'.pc = "done"
          /\ rq'.response.status \in {400, 500}
          /\ fs' = rq'.store]_vars

-----------------------------------------------------------------------------
(* The claims about concurrent requests, temp_download and the shared      *)
(* state                                                                   *)

\* The step in which edit_api's write_to_path succeeded
EditWritesBack ==
    /\ rq.handler = "edit_api" /\ rq.pc = "fields" /\ rq.fields = <<>>
    /\ rq'.pc \in {"done", "rename"}

\* The step in which the listing's write_to_path of a converted cover
\* succeeded
ListingWritesBack ==
    /\ ls.pc = "populate"
    /\ \E k \in Len(ls.ops) + 1..Len(ls'.ops) :
          /\ ls'.ops[k].op = "write"
          /\ ls'.ops[k].path = MUSIC_DIR \o "/" \o ls.filename
          /\ ls'.ops[k].ok

\* C22: no request locks the file it works on.  When an edit request and a
\* listing request overlap on a track, each writes back the tag it read,
\* with its own change, over whatever the file holds by then: after
\* edit_api's write the file holds exactly the tag the edit built, after the
\* listing's write it holds the title and artist the listing read and a JPEG
\* cover.  The write that comes later undoes the other request's change,
\* and neither request is told.
C22_LaterWriteOverwrites ==
    [][/\ EditWritesBack => fs'[rq.path] = rq.tag.v
       /\ ListingWritesBack =>
             LET file == fs'[MUSIC_DIR \o "/" \o ls.filename]
             IN  /\ file.title = ls.tag.title
                 /\ file.artist = ls.tag.artist
                 /\ file.cover.mime = "jpeg"
                 /\ ls'.pc \in {"loop", "panicked"}]_vars

\* Both requests succeeded, the listing converted the cover of "A.mp3" and
\* wrote the tag back, the only edit set the artist to "X", and the file
\* does not hold that artist: the edit is lost.
C22_Witness ==
    /\ rq.n = 1 /\ rq.handler = "edit_api" /\ rq.pc = "done"
    /\ rq.response.status = 200
    /\ rq.req = <<TextField("filename", "A.mp3"), TextField("artist", "X"),
                  TextField("album", "Z")>>
    /\ ls.pc = "done" /\ ls.response.status = 200
    /\ \E k \in 1..Len(ls.ops) :
          ls.ops[k] = FileOp("write", MUSIC_DIR \o "/A.mp3", TRUE)
    /\ fs[MUSIC_DIR \o "/A.mp3"].artist /= Some("X")

\* C23: a temp_download request for an id whose temp file exists is
\* answered 200 with "/td/<id>.mp3" without a run of the tool and with every
\* file as it was; any other request runs the tool at most MAX_RETRIES
\* times and is answered 200 only when its last run was launched and wrote
\* nothing to stderr.
C23_TempDownload ==
    /\ Len(td.hist) <= MAX_RETRIES
    /\ td.i = Len(td.hist)
    /\ (td.pc \in {"loop", "done"} /\ TempPath(td.id) \in DOMAIN td.store) =>
          /\ td.pc = "done"
          /\ td.response = [status |-> 200, body |-> "/td/" \o td.id \o ".mp3"]
          /\ td.hist = <<>>
          /\ fs = td.store
    /\ (td.pc = "done" /\ td.response.status = 200
        /\ TempPath(td.id) \notin DOMAIN td.store) =>
          /\ td.hist /= <<>>
          /\ td.hist[Len(td.hist)].launched
          /\ td.hist[Len(td.hist)].stderr = ""
          /\ td.response.body = "/td/" \o td.id \o ".mp3"

\* A request for an id whose temp file an earlier request's run of the tool
\* left has been answered.
C23_Witness ==
    /\ td.pc = "done"
    /\ TempPath(td.id) \in DOMAIN td.store
    /\ td.response.status = 200

\* Whether every write in a log of file operations succeeded
AllWritten(ops) == \A k \in 1..Len(ops) : ops[k].op = "write" => ops[k].ok

\* C24 as stated: download_file, on the finisher's path for a cover that is
\* not square, and crop_api answer 200 only if the write of the artwork
\* cache and the write of the tag both succeeded; a request whose cache
\* write failed is answered with an error.
C24_NoPartialSuccess ==
    /\ (dl.pc = "done" /\ dl.response.status = 200) => AllWritten(dl.ops)
    /\ (cr.pc = "done" /\ cr.response.status = 200) => AllWritten(cr.ops)
    /\ (cr.pc = "done" /\ ~AllWritten(cr.ops)) => cr.response.status >= 400
    /\ (dl.pc = "done" /\ ~AllWritten(dl.ops)) => dl.response.status >= 400

\* C25: within one download request the track store is read only after the
\* attempt last made was launched and wrote nothing to stderr, and after
\* the parse of that attempt's stdout succeeded: the read is made by the
\* step that follows the parse, and a request that has read the store has
\* such a last attempt.
C25_ReadOnlyAfterParse ==
    /\ (\E k \in 1..Len(dl.ops) : dl.ops[k].op = "read") =>
          /\ dl.hist /= <<>>
          /\ dl.proc.launched
          /\ dl.proc.stderr = ""
          /\ ParseDownloadResponse(dl.proc.stdout).ok
          /\ dl.parsed = ParseDownloadResponse(dl.proc.stdout).v
    /\ dl.pc \in {"idle", "loop", "parse"} => dl.ops = <<>>

\* The store was read in a request whose first two attempts failed.
C25_Witness ==
    /\ \E k \in 1..Len(dl.ops) : dl.ops[k].op = "read"
    /\ Len(dl.hist) = 3
    /\ dl.hist[1] /= "ok" /\ dl.hist[2] /= "ok"

\* C26: after any sequence of add_to_history calls the recently-played list
\* holds at most 10 tracks and no two of them have the same filename.
C26_HistoryBoundedAndDistinct ==
    /\ Len(recently_played) <= 10
    /\ \A i, j \in 1..Len(recently_played) :
          recently_played[i].filename = recently_played[j].filename => i = j

\* A track that was not in a list of 10 was added: it is at the front and
\* the list holds 10 tracks.
C26_Witness ==
    /\ calls.handler = "add_to_history"
    /\ Len(recently_played) = 10
    /\ recently_played[1].filename = "s11.mp3"
    /\ recently_played[10].filename = "s9.mp3"

\* The step of an add_to_history call
Adds == calls'.n = calls.n + 1 /\ calls'.handler = "add_to_history"

\* C27: add_to_history(t) leaves t at the front and the other tracks in the
\* order they had; if a track with t's filename was in the list, the length
\* is unchanged and no other track is dropped; if none was and the list
\* held 10 tracks, exactly the last one is dropped; otherwise the list
\* grows by one.
C27_MoveToFront ==
    [][Adds =>
          LET t == calls'.track
              old == recently_played
              new == recently_played'
              others == SelectSeq(old, LAMBDA x : x.filename /= t.filename)
              present == \E j \in 1..Len(old) : old[j].filename = t.filename
          IN  /\ new /= <<>>
              /\ new[1] = t
              /\ present => Tail(new) = others /\ Len(new) = Len(old)
              /\ (~present /\ Len(old) = 10) =>
                     Tail(new) = SubSeq(old, 1, 9) /\ Len(new) = 10
              /\ (~present /\ Len(old) < 10) =>
                     Tail(new) = old /\ Len(new) = Len(old) + 1]_vars

\* A track in the middle of a full list was played again under another
\* title: it is at the front with that title, and the list still holds 10.
C27_Witness ==
    /\ calls.n = 1 /\ calls.handler = "add_to_history"
    /\ calls.track = HistoryTrack(5, "u")
    /\ Len(recently_played) = 10
    /\ recently_played[1] = HistoryTrack(5, "u")
    /\ recently_played[5] = HistoryTrack(4, "t")
    /\ recently_played[6] = HistoryTrack(6, "t")

\* C28: load_playlist answers 404 'No session stored' exactly when no
\* session was saved since the server started or since the last
\* clear_playlist, and otherwise answers 200 with the session of the most
\* recent save_playlist; clear_playlist always answers 200 and leaves the
\* default session, whether or not one was stored.  Every call is one step
\* under the mutex.
C28_LoadReturnsLastSave ==
    /\ calls.handler = "load_playlist" =>
          /\ calls.status = 404 <=> ~calls.saved
          /\ calls.status = 404 => calls.text = "No session stored"
          /\ calls.saved => calls.status = 200 /\ calls.session = calls.last
    /\ calls.handler = "clear_playlist" =>
          /\ calls.status = 200
          /\ playlist_session = PlaylistSessionDefault
    /\ calls.handler = "save_playlist" => calls.status = 200

\* A session with the values of the default session was saved, and the
\* load that followed returned it.
C28_Witness ==
    /\ calls.n = 3
    /\ calls.handler = "load_playlist"
    /\ calls.status = 200
    /\ calls.session = [current_time |-> 0, current_index |-> 0, queue |-> <<>>]

\* An edit request that uploads a thumbnail of an accepted content type
Uploads(r) ==
    /\ r.handler = "edit_api"
    /\ \E k \in 1..Len(r.req) :
          /\ r.req[k].name = "thumbnail"
          /\ r.req[k].data /= EmptyBytes
          /\ r.req[k].content_type.some
          /\ MimeTryFrom(r.req[k].content_type.v).some

\* The file name of the edited track once the edit has succeeded
EditedFilename(r) ==
    LET filename == FieldTexts(r.req, "filename")[Len(FieldTexts(r.req, "filename"))]
        titles == FieldTexts(r.req, "title")
    IN  IF titles = <<>> THEN filename
        ELSE titles[Len(titles)]
                \o SubSeq(filename, Len(without_extension(filename)) + 1, Len(filename))

\* Two image files that hold the same picture
SameImage(a, b) == a.width = b.width /\ a.height = b.height /\ a.x = b.x

\* C29 as stated: when an edit that uploads a thumbnail succeeds, the
\* artwork cache img/<T>.jpeg, T the stem of the track's file name after the
\* edit, exists and holds the same image as the cover embedded in the
\* track, with or without a title field, for any order of the title and
\* thumbnail fields and any accepted content type.
C29_UploadReachesCache ==
    [][(EditSucceeds /\ Uploads(rq) /\ FieldTexts(rq.req, "filename") /= <<>>) =>
          LET filename == EditedFilename(rq)
              track == MUSIC_DIR \o "/" \o filename
              cache == ImagePath(without_extension(filename))
          IN  /\ track \in DOMAIN fs'
              /\ fs'[track].cover.some
              /\ cache \in DOMAIN fs'
              /\ SameImage(fs'[cache], fs'[track].cover.data)]_vars

====
